---- MODULE Spec2Model ----
(***************************************************************************)
(* Verification model of the udom reinforcement-learning core:             *)
(*   - DesignEnvironment (rl/core/environment/environment.py): the episode *)
(*     state machine reset/step and the reward model _compute_reward;      *)
(*   - from_preference_event (rl/core/environment/converters.py);          *)
(*   - SyntheticPreferenceGenerator (rl/core/synthetic_preference_         *)
(*     generator.py) with the PlatformKeywordClassifier it consults.       *)
(*                                                                         *)
(* Numbers.  The program computes with floats; the model computes with     *)
(* exact integers.  A weight w is held as 10*w (tenths), an unweighted     *)
(* reward r as 1000*r (thousandths), so a weighted component and the total *)
(* reward are held as 10000 times their value.  Durations are whole        *)
(* milliseconds, drawn from multiples of 20 so that both decay formulas    *)
(* divide exactly.  Confidences and scores of rules are hundredths.        *)
(*                                                                         *)
(* Optional values.  Python's None is the empty tuple and a present value  *)
(* x is the one-element tuple <<x>>.                                       *)
(***************************************************************************)
EXTENDS Integers, Sequences, FiniteSets, TLC

VARIABLES
    env,        \* the DesignEnvironment object: its fields
    result,     \* the last call on env: operation, arguments, outcome
    accepted,   \* history: a step of the current episode was accepted
    eventful,   \* bookkeeping of the bound MaxEventful
    gen,        \* the SyntheticPreferenceGenerator object: its configuration
    keyword_classifier,  \* the shared PlatformKeywordClassifier object: its tables
    out,        \* the last call on gen: operation, arguments, outcome
    prev,       \* the call on gen before the last one
    files,      \* the file system: path -> parsed contents of the file
    loaded,     \* a second PlatformKeywordClassifier object, or None
    callers     \* the callers running learn_from_rules: position and locals

vars == <<env, result, accepted, eventful, gen, keyword_classifier, out, prev,
          files, loaded, callers>>

\* the objects of the classifier besides its shared instance
clsvars == <<files, loaded, callers>>

\* the objects of the generator, which the environment never touches
genvars == <<gen, keyword_classifier, out, prev, files, loaded, callers>>

None == <<>>
Some(x) == <<x>>
IsNone(o) == o = <<>>
Val(o) == o[1]

Min(a, b) == IF a <= b THEN a ELSE b
Max(a, b) == IF a >= b THEN a ELSE b

RECURSIVE SumSeq(_)
\* Python's sum() over a list
SumSeq(s) == IF s = <<>> THEN 0 ELSE s[1] + SumSeq(Tail(s))

----------------------------------------------------------------------------
(* Bounds *)

\* step calls allowed in one episode (the program has no such limit)
MaxSteps == 11
\* steps of one episode whose response is not "ignored"
MaxEventful == 1
\* entries with change_scope "property" in a change list
MaxProp == 6
\* entries with another change_scope in a change list
MaxOther == 6

----------------------------------------------------------------------------
(* Types of rl/core/environment/types.py *)

ActionType == {"suggest_rule", "suggest_multiple", "no_suggestion"}

UserResponse == {"accepted", "rejected", "modified", "ignored"}

\* the step cap written in DesignEnvironment.step
MAX_EPISODE_STEPS == 10

Observations == {"obs1", "obs2"}

Actions ==
    { [action_type |-> "suggest_rule",     suggested_rules |-> <<"r1">>],
      [action_type |-> "suggest_multiple", suggested_rules |-> <<"r1", "r2">>] }

RECURSIVE Repeat(_, _)
Repeat(x, n) == IF n = 0 THEN <<>> ELSE <<x>> \o Repeat(x, n - 1)

\* a change list of the diffing system: p property-level entries, then o others
MkChanges(p, o) ==
    Repeat([change_scope |-> "property"], p) \o Repeat([change_scope |-> "node"], o)

ChangeLists == { MkChanges(p, o) : p \in 0..MaxProp, o \in 0..MaxOther }

\* Optional[List[Dict]]: None, [] and the non-empty lists
OptChanges == {None} \cup { Some(c) : c \in ChangeLists }

Durations == {0, 500, 980, 1000, 1020, 2000, 3000, 4980, 5000, 5020, 10000, 15000, 20000}

OptDurations == {None} \cup { Some(d) : d \in Durations }

----------------------------------------------------------------------------
(* DesignEnvironment *)

\* __init__: the object after construction with the given weights
DesignEnvironment(pw, cw, tw) ==
    [ preference_weight   |-> pw,
      change_weight       |-> cw,
      temporal_weight     |-> tw,
      max_suggestions     |-> 5,
      current_observation |-> None,
      last_action         |-> None,
      last_user_response  |-> None,
      last_changes        |-> None,
      episode_step        |-> 0,
      episode_rewards     |-> <<>> ]

\* bool(changes): None and [] are both falsy
Truthy(changes) == ~IsNone(changes) /\ Val(changes) # <<>>

\* len(changes) if changes else 0
NumChanges(changes) == IF Truthy(changes) THEN Len(Val(changes)) ELSE 0

\* sum(1 for c in changes if c.get('change_scope') == 'property')
PropertyChanges(cs) ==
    Cardinality({ i \in 1..Len(cs) : cs[i].change_scope = "property" })

\* 1. user preference reward, thousandths
PreferenceReward(user_response) ==
    IF user_response = "accepted" THEN 1000
    ELSE IF user_response = "rejected" THEN -1000
    ELSE IF user_response = "modified" THEN 500
    ELSE 0

ChangeReward_uncapped_bonus(changes) ==
    IF Truthy(changes)
    THEN LET num_changes == Len(Val(changes))
             property_changes == PropertyChanges(Val(changes))
             base == Min(num_changes * 100, 1000)
         IN  IF property_changes > 0
             THEN base + property_changes * 40
             ELSE base
    ELSE 0

\* 2. change magnitude reward, thousandths:
\*    min(n / 10.0, 1.0), plus 0.2 * min(p / 5.0, 1.0) when p > 0
ChangeReward(changes) ==
    IF Truthy(changes)
    THEN LET num_changes == Len(Val(changes))
             property_changes == PropertyChanges(Val(changes))
             base == Min(num_changes * 100, 1000)
         IN  IF property_changes > 0
             THEN base + Min(property_changes * 40, 200)
             ELSE base
    ELSE 0

TemporalReward_wide_window(duration_ms) ==
    IF IsNone(duration_ms) THEN 0
    ELSE LET d == Val(duration_ms)
         IN  IF 1000 <= d /\ d <= 5000 THEN 1000 - ((d - 1000) \div 5)
             ELSE IF d < 1000 THEN 500
             ELSE Max(0, 1000 - ((d - 5000) \div 10))

\* 3. temporal reward, thousandths
TemporalReward(duration_ms) ==
    IF IsNone(duration_ms) THEN 0
    ELSE LET d == Val(duration_ms)
         IN  IF 1000 <= d /\ d <= 5000 THEN 1000 - ((d - 1000) \div 4)
             ELSE IF d < 1000 THEN 500
             ELSE Max(0, 1000 - ((d - 5000) \div 10))

\* the Reward built from the three weighted components and their total
MkReward(self, action, user_response, changes, duration_ms, total) ==
    [ value      |-> total,
      source     |-> "composite",
      components |->
        [ preference       |-> PreferenceReward(user_response) * self.preference_weight,
          change_magnitude |-> ChangeReward(changes) * self.change_weight,
          temporal         |-> TemporalReward(duration_ms) * self.temporal_weight ],
      metadata   |->
        [ user_response   |-> user_response,
          num_suggestions |-> Len(action.suggested_rules),
          num_changes     |-> NumChanges(changes),
          duration_ms     |-> duration_ms ] ]

ComponentSum_clamped(self, user_response, changes, duration_ms) ==
    Max(-10000, Min(10000,
        SumSeq(<< PreferenceReward(user_response) * self.preference_weight,
                  ChangeReward(changes) * self.change_weight,
                  TemporalReward(duration_ms) * self.temporal_weight >>)))

\* total_reward = sum(components.values())
ComponentSum(self, user_response, changes, duration_ms) ==
    SumSeq(<< PreferenceReward(user_response) * self.preference_weight,
              ChangeReward(changes) * self.change_weight,
              TemporalReward(duration_ms) * self.temporal_weight >>)

_compute_reward_stale_changes(self, action, user_response, changes, duration_ms) ==
    MkReward(self, action, user_response, self.last_changes, duration_ms,
             ComponentSum(self, user_response, self.last_changes, duration_ms))

_compute_reward(self, action, user_response, changes, duration_ms) ==
    MkReward(self, action, user_response, changes, duration_ms,
             ComponentSum(self, user_response, changes, duration_ms))

\* (min_reward, max_reward), in the unit of a reward value
get_reward_range(self) ==
    << self.preference_weight * (-1000) + self.change_weight * 0
         + self.temporal_weight * 0,
       self.preference_weight * 1000 + self.change_weight * 1200
         + self.temporal_weight * 1000 >>

\* the four assignments a successful step makes before it computes the reward
StepAssign(self, action, user_response, changes) ==
    [ self EXCEPT
        !.last_action        = Some(action),
        !.last_user_response = Some(user_response),
        !.last_changes       = changes,
        !.episode_step       = self.episode_step + 1 ]

\* the reward of a step, computed on the object as it is at that point
StepReward(self, action, user_response, changes, duration_ms) ==
    _compute_reward(StepAssign(self, action, user_response, changes),
                    action, user_response, changes, duration_ms)

\* the object after a successful step
StepEnv(self, action, user_response, changes, duration_ms, next_observation) ==
    LET s1 == StepAssign(self, action, user_response, changes)
        reward == StepReward(self, action, user_response, changes, duration_ms)
    IN  [ s1 EXCEPT
            !.episode_rewards     = Append(s1.episode_rewards, reward.value),
            !.current_observation =
                IF ~IsNone(next_observation) THEN next_observation
                ELSE s1.current_observation ]

StepDone_after_cap(user_response, episode_step) ==
    user_response = "accepted" \/ episode_step > 10

\* done, from the response and the step counter after the increment
StepDone(user_response, episode_step) ==
    user_response = "accepted" \/ episode_step >= MAX_EPISODE_STEPS

StepResult_stale_total(self, action, user_response, changes, duration_ms, next_observation) ==
    LET s2 == StepEnv(self, action, user_response, changes, duration_ms,
                      next_observation)
    IN  [ observation |-> s2.current_observation,
          reward      |-> StepReward(self, action, user_response, changes,
                                     duration_ms),
          done        |-> StepDone(user_response, s2.episode_step),
          info        |->
            [ episode_step  |-> s2.episode_step,
              total_reward  |-> SumSeq(self.episode_rewards),
              action_type   |-> action.action_type,
              user_response |-> user_response,
              num_changes   |-> NumChanges(changes) ] ]

\* the StepResult of a successful step on the object self
StepResult(self, action, user_response, changes, duration_ms, next_observation) ==
    LET s2 == StepEnv(self, action, user_response, changes, duration_ms,
                      next_observation)
    IN  [ observation |-> s2.current_observation,
          reward      |-> StepReward(self, action, user_response, changes,
                                     duration_ms),
          done        |-> StepDone(user_response, s2.episode_step),
          info        |->
            [ episode_step  |-> s2.episode_step,
              total_reward  |-> SumSeq(s2.episode_rewards),
              action_type   |-> action.action_type,
              user_response |-> user_response,
              num_changes   |-> NumChanges(changes) ] ]

----------------------------------------------------------------------------
(* Operations on the environment object *)

reset_keeps_history(observation) ==
    /\ env' = [ env EXCEPT
                  !.current_observation = Some(observation),
                  !.last_action         = None,
                  !.last_user_response  = None,
                  !.last_changes        = None ]
    /\ result' = [ op     |-> "reset",
                   args   |-> [observation |-> observation],
                   raised |-> "",
                   ret    |-> env'.current_observation ]
    /\ accepted' = FALSE
    /\ eventful' = 0

reset(observation) ==
    /\ env' = [ env EXCEPT
                  !.current_observation = Some(observation),
                  !.last_action         = None,
                  !.last_user_response  = None,
                  !.last_changes        = None,
                  !.episode_step        = 0,
                  !.episode_rewards     = <<>> ]
    /\ result' = [ op     |-> "reset",
                   args   |-> [observation |-> observation],
                   raised |-> "",
                   ret    |-> env'.current_observation ]
    /\ accepted' = FALSE
    /\ eventful' = 0

step_assigns_first(action, user_response, changes, duration_ms, next_observation) ==
    LET args == [ action |-> action, user_response |-> user_response,
                  changes |-> changes, duration_ms |-> duration_ms,
                  next_observation |-> next_observation ]
    IN  IF IsNone(env.current_observation)
        THEN /\ env' = StepAssign(env, action, user_response, changes)
             /\ result' = [ op |-> "step", args |-> args,
                            raised |-> "ValueError", ret |-> None ]
             /\ UNCHANGED <<accepted, eventful>>
        ELSE /\ env' = StepEnv(env, action, user_response, changes,
                               duration_ms, next_observation)
             /\ result' = [ op |-> "step", args |-> args, raised |-> "",
                            ret |-> StepResult(env, action, user_response,
                                               changes, duration_ms,
                                               next_observation) ]
             /\ accepted' = (accepted \/ user_response = "accepted")
             /\ eventful' = IF user_response = "ignored" THEN eventful
                            ELSE eventful + 1

step(action, user_response, changes, duration_ms, next_observation) ==
    LET args == [ action |-> action, user_response |-> user_response,
                  changes |-> changes, duration_ms |-> duration_ms,
                  next_observation |-> next_observation ]
    IN  IF IsNone(env.current_observation)
        THEN /\ result' = [ op |-> "step", args |-> args,
                            raised |-> "ValueError", ret |-> None ]
             /\ UNCHANGED <<env, accepted, eventful>>
        ELSE /\ env' = StepEnv(env, action, user_response, changes,
                               duration_ms, next_observation)
             /\ result' = [ op |-> "step", args |-> args, raised |-> "",
                            ret |-> StepResult(env, action, user_response,
                                               changes, duration_ms,
                                               next_observation) ]
             /\ accepted' = (accepted \/ user_response = "accepted")
             /\ eventful' = IF user_response = "ignored" THEN eventful
                            ELSE eventful + 1

\* a direct call of env._compute_reward, as from_preference_event makes it
compute_reward(action, user_response, changes, duration_ms) ==
    /\ result' = [ op     |-> "compute_reward",
                   args   |-> [ action |-> action, user_response |-> user_response,
                                changes |-> changes, duration_ms |-> duration_ms ],
                   raised |-> "",
                   ret    |-> _compute_reward(env, action, user_response,
                                              changes, duration_ms) ]
    /\ UNCHANGED <<env, accepted, eventful>>

reward_range ==
    /\ result' = [ op |-> "get_reward_range", args |-> None, raised |-> "",
                   ret |-> get_reward_range(env) ]
    /\ UNCHANGED <<env, accepted, eventful>>

----------------------------------------------------------------------------
(* Specification of the episode state machine *)

\* weight configurations (tenths): the defaults 1.0, 0.5, 0.2 and another
EnvWeights == { <<10, 5, 2>>, <<20, 0, 10>> }

\* the interaction records the episode is driven with, one per response
Interactions ==
    { [ user_response |-> "accepted", changes |-> None, duration_ms |-> Some(2000) ],
      [ user_response |-> "rejected", changes |-> None, duration_ms |-> None ],
      [ user_response |-> "modified", changes |-> Some(MkChanges(1, 1)),
        duration_ms |-> Some(500) ],
      [ user_response |-> "ignored",  changes |-> None, duration_ms |-> None ] }

NoCall == [ op |-> "init", args |-> None, raised |-> "", ret |-> None ]

\* no generator and no classifier have been built
NoGenerator == None
NoClassifier == None
NoFiles == <<>>
NoCallers == <<>>

Init ==
    /\ env \in { DesignEnvironment(w[1], w[2], w[3]) : w \in EnvWeights }
    /\ result = NoCall
    /\ accepted = FALSE
    /\ eventful = 0
    /\ gen = NoGenerator
    /\ keyword_classifier = NoClassifier
    /\ out = NoCall
    /\ prev = NoCall
    /\ files = NoFiles
    /\ loaded = NoClassifier
    /\ callers = NoCallers

Reset == (\E o \in Observations : reset(o)) /\ UNCHANGED genvars

Step ==
    \E a \in Actions, i \in Interactions, n \in {None, Some("obs2")} :
        /\ env.episode_step < MaxSteps
        /\ (i.user_response # "ignored" => eventful < MaxEventful)
        /\ step(a, i.user_response, i.changes, i.duration_ms, n)
        /\ UNCHANGED genvars

ComputeReward ==
    /\ \E a \in Actions, i \in Interactions :
          compute_reward(a, i.user_response, i.changes, i.duration_ms)
    /\ UNCHANGED genvars

Next == Reset \/ Step \/ ComputeReward

Spec == Init /\ [][Next]_vars

----------------------------------------------------------------------------
(* Specification of the reward model: one environment per weight           *)
(* configuration, _compute_reward applied to every interaction record      *)

PreferenceWeights == {0, 10}
ChangeWeights == {-5, 5}
TemporalWeights == {0, 2}

InitReward ==
    /\ env \in { DesignEnvironment(pw, cw, tw) :
                   pw \in PreferenceWeights, cw \in ChangeWeights,
                   tw \in TemporalWeights }
    /\ result = NoCall
    /\ accepted = FALSE
    /\ eventful = 0
    /\ gen = NoGenerator
    /\ keyword_classifier = NoClassifier
    /\ out = NoCall
    /\ prev = NoCall
    /\ files = NoFiles
    /\ loaded = NoClassifier
    /\ callers = NoCallers

\* the call changes nothing in env, so one call per interaction record
\* from a state in which no reward is held covers all of them
ComputeRewardAny ==
    /\ result.op # "compute_reward"
    /\ \E a \in Actions, u \in UserResponse, c \in OptChanges, d \in OptDurations :
          compute_reward(a, u, c, d)
    /\ UNCHANGED genvars

GetRewardRange == reward_range /\ UNCHANGED genvars

NextReward == ComputeRewardAny \/ GetRewardRange

SpecReward == InitReward /\ [][NextReward]_vars

----------------------------------------------------------------------------
(* Properties of the episode state machine and of the reward model *)

Fresh(self) ==
    DesignEnvironment(self.preference_weight, self.change_weight,
                      self.temporal_weight)

NonNegativeWeights ==
    /\ env.preference_weight >= 0
    /\ env.change_weight >= 0
    /\ env.temporal_weight >= 0

Computed == result.op = "compute_reward"

Stepped == result.op = "step" /\ result.raised = ""

\* C1: a step on an environment that was never reset raises the
\* invalid-state error (ValueError) and leaves every field of the
\* environment as it was.
C1_StepBeforeResetFails ==
    [][ (result'.op = "step" /\ IsNone(env.current_observation))
          => (result'.raised = "ValueError" /\ env' = env) ]_vars

C1_Witness ==
    /\ result.op = "step"
    /\ result.raised = "ValueError"
    /\ result.args.user_response = "accepted"
    /\ env = Fresh(env)

\* C2: a successful step returns done = TRUE exactly when its response is
\* accepted or the step counter after the increment is at least 10.
C2_DoneIffAcceptedOrCap ==
    Stepped =>
        /\ result.ret.info.episode_step = env.episode_step
        /\ result.ret.done <=>
             (result.args.user_response = "accepted" \/ env.episode_step >= 10)

C2_Witness ==
    /\ Stepped
    /\ result.args.user_response = "rejected"
    /\ env.episode_step = 10
    /\ result.ret.done

\* C3: once a step of the episode has been accepted, every later step of
\* the same episode (no reset in between) returns done = TRUE.
C3_AcceptanceAbsorbing ==
    (Stepped /\ accepted) => result.ret.done

\* C4: the step counter never exceeds the cap of 10 steps.
C4_StepCounterAtMostTen ==
    env.episode_step <= 10

\* C5: reset, in any state, zeroes the step counter, empties the reward
\* history, clears last action, last response and last changes, stores and
\* returns its argument, and keeps the three weights.
C5_ResetClearsEpisode ==
    [][ result'.op = "reset"
          => /\ env'.episode_step = 0
             /\ env'.episode_rewards = <<>>
             /\ IsNone(env'.last_action)
             /\ IsNone(env'.last_user_response)
             /\ IsNone(env'.last_changes)
             /\ env'.current_observation = Some(result'.args.observation)
             /\ result'.ret = Some(result'.args.observation)
             /\ env'.preference_weight = env.preference_weight
             /\ env'.change_weight = env.change_weight
             /\ env'.temporal_weight = env.temporal_weight ]_vars

C5_Witness ==
    /\ result.op = "reset"
    /\ result.args.observation = "obs2"
    /\ env.episode_step = 0
    /\ env.episode_rewards = <<>>
    /\ env.preference_weight = 20

ClaimedLow == -1000 * env.preference_weight
ClaimedHigh ==
    1000 * env.preference_weight + 1200 * env.change_weight
    + 1000 * env.temporal_weight

Attained(v) ==
    \E a \in Actions, u \in UserResponse, c \in OptChanges, d \in OptDurations :
        _compute_reward(env, a, u, c, d).value = v

\* C7: with non-negative weights every computed reward value lies in the
\* interval get_reward_range returns, that interval is
\* [-pw, pw + 1.2*cw + tw], and both of its ends are reward values.
C7_RewardWithinRange ==
    NonNegativeWeights =>
        /\ Computed =>
             /\ get_reward_range(env)[1] <= result.ret.value
             /\ result.ret.value <= get_reward_range(env)[2]
        /\ result.op = "get_reward_range" =>
             /\ result.ret = <<ClaimedLow, ClaimedHigh>>
             /\ Attained(result.ret[1])
             /\ Attained(result.ret[2])

C7_Witness ==
    /\ Computed
    /\ NonNegativeWeights
    /\ env.change_weight > 0 /\ env.temporal_weight > 0
    /\ env.preference_weight > 0
    /\ result.ret.value = get_reward_range(env)[2]
    /\ Len(Val(result.args.changes)) > 10

InWindow(d) == ~IsNone(d) /\ 1000 <= Val(d) /\ Val(d) <= 5000

C9_ComputeRewardPure ==
    [][ result'.op = "compute_reward"
          => /\ env' = env
             /\ result'.ret =
                  _compute_reward(Fresh(env), result'.args.action,
                                  result'.args.user_response,
                                  result'.args.changes,
                                  result'.args.duration_ms) ]_vars

C9_Witness ==
    /\ Computed
    /\ env.episode_step > 1
    /\ Truthy(env.last_changes)
    /\ IsNone(result.args.changes)

----------------------------------------------------------------------------
(* Strings.  A Python str that the program searches, lower-cases, splits   *)
(* or concatenates is a tuple of one-character strings.                    *)

UpperChars ==
    << "A", "B", "C", "D", "E", "F", "G", "H", "I", "J", "K", "L", "M",
       "N", "O", "P", "Q", "R", "S", "T", "U", "V", "W", "X", "Y", "Z" >>

LowerChars ==
    << "a", "b", "c", "d", "e", "f", "g", "h", "i", "j", "k", "l", "m",
       "n", "o", "p", "q", "r", "s", "t", "u", "v", "w", "x", "y", "z" >>

LowerChar(c) ==
    IF \E i \in 1..26 : UpperChars[i] = c
    THEN LowerChars[CHOOSE i \in 1..26 : UpperChars[i] = c]
    ELSE c

\* str.lower()
Lower(s) == [ i \in 1..Len(s) |-> LowerChar(s[i]) ]

\* k in s, for strings
Contains(s, k) ==
    \E i \in 0..(Len(s) - Len(k)) : SubSeq(s, i + 1, i + Len(k)) = k

\* len(s.split()): the maximal runs of characters other than white space
WordCount(s) ==
    Cardinality({ i \in 1..Len(s) :
                    s[i] # " " /\ (i = 1 \/ s[i - 1] = " ") })

RECURSIVE Split(_, _)
\* s.split(sep) for a one-character separator
Split(s, sep) ==
    IF \E i \in 1..Len(s) : s[i] = sep
    THEN LET i == CHOOSE j \in 1..Len(s) :
                    s[j] = sep /\ \A k \in 1..(j - 1) : s[k] # sep
         IN  <<SubSeq(s, 1, i - 1)>> \o Split(SubSeq(s, i + 1, Len(s)), sep)
    ELSE <<s>>

\* any(k in s for k in keywords)
ContainsAny(s, keywords) == \E i \in 1..Len(keywords) : Contains(s, keywords[i])


----------------------------------------------------------------------------
(* Rules.  IntentRule objects live in a heap: Rule maps an object           *)
(* reference to the fields of the object, and lists of rules and           *)
(* preference pairs hold references.  A dict is a function from its keys.  *)

Rule ==
    [ rA |->
        [ rule_id |-> "test_rule_1",
          description |-> <<"I", "n", "c", "r", "e", "a", "s", "e", " ", "s", "p", "a", "c", "i", "n", "g", " ", "f", "o", "r", " ", "b", "e", "t", "t", "e", "r", " ", "r", "e", "a", "d", "a", "b", "i", "l", "i", "t", "y">>,
          scope |-> "artifact_property",
          abstraction_level |-> "intermediate",
          triggering_actions |-> <<"modify_property">>,
          artifact_properties |-> None,
          confidence |-> 85,
          platform_context |->
            Some([ platform |-> <<"f", "i", "g", "m", "a">>, extraction_method |-> <<"p", "l", "u", "g", "i", "n", "_", "a", "p", "i">> ]),
          training_metadata |->
            Some([ suitable_for_training |-> TRUE, novelty_score |-> 80,
                   pattern_frequency |-> "common" ]),
          design_dimension |-> None ],
      rB |->
        [ rule_id |-> "test_rule_2",
          description |-> <<"U", "s", "e", "r", " ", "c", "h", "a", "n", "g", "e", "s", " ", "s", "o", "m", "e", "t", "h", "i", "n", "g">>,
          scope |-> "structural",
          abstraction_level |-> "general",
          triggering_actions |-> <<"modify">>,
          artifact_properties |-> None,
          confidence |-> 35,
          platform_context |-> Some([ platform |-> <<"f", "i", "g", "m", "a">> ]),
          training_metadata |->
            Some([ suitable_for_training |-> FALSE, novelty_score |-> 20,
                   pattern_frequency |-> "rare" ]),
          design_dimension |-> None ],
      rC |->
        [ rule_id |-> "test_rule_1",
          description |-> <<"A", "d", "j", "u", "s", "t", " ", "s", "p", "a", "c", "i", "n", "g">>,
          scope |-> "artifact_property",
          abstraction_level |-> "general",
          triggering_actions |-> <<"modify">>,
          artifact_properties |-> None,
          confidence |-> 30,
          platform_context |-> Some([ platform |-> <<"F", "i", "g", "m", "a">> ]),
          training_metadata |->
            Some([ suitable_for_training |-> FALSE, novelty_score |-> 10,
                   pattern_frequency |-> "rare" ]),
          design_dimension |-> Some(<<"s", "p", "a", "c", "i", "n", "g">>) ],
      rD |->
        [ rule_id |-> "rule_4",
          description |-> <<"R", "e", "f", "i", "n", "e", " ", "p", "a", "d", "d", "i", "n", "g", " ", "f", "o", "r", " ", "c", "o", "n", "s", "i", "s", "t", "e", "n", "c", "y">>,
          scope |-> "artifact_property",
          abstraction_level |-> "specific",
          triggering_actions |-> <<"modify_property", "select">>,
          artifact_properties |-> Some(<< <<"p", "a", "d", "d", "i", "n", "g", "L", "e", "f", "t">> >>),
          confidence |-> 50,
          platform_context |->
            Some([ platform |-> <<"f", "i", "g", "m", "a">>, extraction_method |-> <<"r", "e", "s", "t", "_", "a", "p", "i">>,
                   api_endpoints |-> << <<"/", "v", "1", "/", "f", "i", "l", "e", "s">> >> ]),
          training_metadata |->
            Some([ suitable_for_training |-> TRUE, novelty_score |-> 50,
                   pattern_frequency |-> "uncommon",
                   constitutional_signals |-> <<"iteration", "correlation">>,
                   iteration_detected |-> TRUE ]),
          design_dimension |-> None ] ]

RuleRefs == DOMAIN Rule

KnownDescriptions == { Rule[r].description : r \in RuleRefs }

\* bool(d) for an Optional dict or list: None and the empty one are falsy
NonEmpty(o) == ~IsNone(o) /\ Val(o) # <<>>

\* d.get(key) is truthy, for a key that holds a string or a list
HasTruthy(d, key) == key \in DOMAIN d /\ d[key] # <<>>

----------------------------------------------------------------------------
(* PlatformKeywordClassifier *)
BASE_DESIGN_DIMENSIONS ==
    << [ dimension |-> <<"l", "a", "y", "o", "u", "t">>,
         keywords |->
           << <<"l", "a", "y", "o", "u", "t">>, <<"g", "r", "i", "d">>,
              <<"a", "l", "i", "g", "n", "m", "e", "n", "t">>,
              <<"p", "o", "s", "i", "t", "i", "o", "n">>,
              <<"a", "r", "r", "a", "n", "g", "e", "m", "e", "n", "t">>,
              <<"s", "t", "r", "u", "c", "t", "u", "r", "e">>,
              <<"c", "o", "m", "p", "o", "s", "i", "t", "i", "o", "n">> >> ],
       [ dimension |-> <<"i", "n", "t", "e", "r", "a", "c", "t", "i", "o", "n">>,
         keywords |->
           << <<"i", "n", "t", "e", "r", "a", "c", "t", "i", "o", "n">>,
              <<"f", "l", "o", "w">>,
              <<"n", "a", "v", "i", "g", "a", "t", "i", "o", "n">>,
              <<"c", "l", "i", "c", "k">>, <<"h", "o", "v", "e", "r">>,
              <<"t", "r", "a", "n", "s", "i", "t", "i", "o", "n">>,
              <<"s", "t", "a", "t", "e">>,
              <<"b", "e", "h", "a", "v", "i", "o", "r">> >> ],
       [ dimension |-> <<"c", "o", "n", "t", "e", "n", "t">>,
         keywords |->
           << <<"c", "o", "n", "t", "e", "n", "t">>, <<"t", "e", "x", "t">>,
              <<"c", "o", "p", "y">>, <<"m", "e", "s", "s", "a", "g", "e">>,
              <<"i", "n", "f", "o", "r", "m", "a", "t", "i", "o", "n">>,
              <<"d", "a", "t", "a">>, <<"l", "a", "b", "e", "l">> >> ],
       [ dimension |-> <<"v", "i", "s", "u", "a", "l", "_", "h", "i", "e", "r", "a", "r", "c", "h", "y">>,
         keywords |->
           << <<"h", "i", "e", "r", "a", "r", "c", "h", "y">>,
              <<"e", "m", "p", "h", "a", "s", "i", "s">>,
              <<"p", "r", "o", "m", "i", "n", "e", "n", "c", "e">>,
              <<"i", "m", "p", "o", "r", "t", "a", "n", "c", "e">>,
              <<"l", "e", "v", "e", "l">>, <<"r", "a", "n", "k">> >> ],
       [ dimension |-> <<"s", "p", "a", "c", "i", "n", "g">>,
         keywords |->
           << <<"s", "p", "a", "c", "i", "n", "g">>,
              <<"m", "a", "r", "g", "i", "n">>,
              <<"p", "a", "d", "d", "i", "n", "g">>, <<"g", "a", "p">>,
              <<"r", "h", "y", "t", "h", "m">>,
              <<"w", "h", "i", "t", "e", "s", "p", "a", "c", "e">>,
              <<"d", "i", "s", "t", "a", "n", "c", "e">> >> ],
       [ dimension |-> <<"t", "y", "p", "o", "g", "r", "a", "p", "h", "y">>,
         keywords |->
           << <<"t", "y", "p", "o", "g", "r", "a", "p", "h", "y">>,
              <<"f", "o", "n", "t">>, <<"t", "y", "p", "e">>,
              <<"t", "e", "x", "t", " ", "s", "t", "y", "l", "e">>,
              <<"l", "e", "t", "t", "e", "r">>,
              <<"l", "i", "n", "e", " ", "h", "e", "i", "g", "h", "t">>,
              <<"k", "e", "r", "n", "i", "n", "g">> >> ],
       [ dimension |-> <<"c", "o", "l", "o", "r">>,
         keywords |->
           << <<"c", "o", "l", "o", "r">>, <<"p", "a", "l", "e", "t", "t", "e">>,
              <<"h", "u", "e">>,
              <<"s", "a", "t", "u", "r", "a", "t", "i", "o", "n">>,
              <<"c", "o", "n", "t", "r", "a", "s", "t">>, <<"t", "o", "n", "e">>,
              <<"s", "h", "a", "d", "e">> >> ],
       [ dimension |-> <<"v", "i", "s", "u", "a", "l", "_", "e", "l", "e", "m", "e", "n", "t", "s">>,
         keywords |->
           << <<"s", "h", "a", "d", "o", "w">>, <<"b", "o", "r", "d", "e", "r">>,
              <<"r", "a", "d", "i", "u", "s">>,
              <<"g", "r", "a", "d", "i", "e", "n", "t">>,
              <<"e", "f", "f", "e", "c", "t">>, <<"f", "i", "l", "t", "e", "r">>,
              <<"o", "p", "a", "c", "i", "t", "y">> >> ] >>

\* SCOPE_MAPPING.get(scope, 'general')
SCOPE_MAPPING(scope) ==
    IF scope = "structural" THEN <<"l", "a", "y", "o", "u", "t">>
    ELSE IF scope = "relational" THEN <<"i", "n", "t", "e", "r", "a", "c", "t", "i", "o", "n">>
    ELSE IF scope = "compositional" THEN <<"l", "a", "y", "o", "u", "t">>
    ELSE IF scope = "artifact_property" THEN <<"v", "i", "s", "u", "a", "l", "_", "e", "l", "e", "m", "e", "n", "t", "s">>
    ELSE <<"g", "e", "n", "e", "r", "a", "l">>

\* __init__: no learned keyword, no performance record
PlatformKeywordClassifier ==
    [ platform_keywords |-> <<>>, keyword_performance |-> <<>> ]

\* the base keywords of a dimension found in the description, in list order
BaseMatched(description_lower, keywords) ==
    SelectSeq(keywords, LAMBDA k : Contains(description_lower, k))

\* the learned keywords of (platform, dimension) found in the description;
\* a learned table maps a keyword to its reward, thousandths
LearnedMatched(self, description_lower, platform, dimension) ==
    IF /\ ~IsNone(platform)
       /\ Val(platform) # <<>>
       /\ Val(platform) \in DOMAIN self.platform_keywords
       /\ dimension \in DOMAIN self.platform_keywords[Val(platform)]
    THEN { k \in DOMAIN self.platform_keywords[Val(platform)][dimension] :
             Contains(description_lower, k) }
    ELSE {}

RECURSIVE SumRewards(_, _)
SumRewards(table, ks) ==
    IF ks = {} THEN 0
    ELSE LET k == CHOOSE x \in ks : TRUE
         IN  table[k] + SumRewards(table, ks \ {k})

\* for every base dimension, how many of its keywords the description holds
BaseCounts(description) ==
    [ i \in 1..Len(BASE_DESIGN_DIMENSIONS) |->
        Len(BaseMatched(Lower(description), BASE_DESIGN_DIMENSIONS[i].keywords)) ]

\* BaseCounts of the descriptions of the heap, computed once
BaseCountsTable == [ d \in KnownDescriptions |-> BaseCounts(d) ]

BaseCountsOf(description) ==
    IF description \in KnownDescriptions THEN BaseCountsTable[description]
    ELSE BaseCounts(description)

\* the score of the i-th base dimension, thousandths
DimensionScore(self, description, platform, i) ==
    LET dim == BASE_DESIGN_DIMENSIONS[i]
        learned == LearnedMatched(self, Lower(description), platform, dim.dimension)
    IN  1000 * BaseCountsOf(description)[i]
        + (IF learned = {} THEN 0
           ELSE SumRewards(self.platform_keywords[Val(platform)][dim.dimension],
                           learned))

\* max(dimension_scores.items(), key=score): the first of the best-scoring
\* dimensions in the order of BASE_DESIGN_DIMENSIONS
BestDimension(scores) ==
    CHOOSE i \in 1..Len(scores) :
        /\ scores[i] > 0
        /\ \A j \in 1..Len(scores) : scores[j] <= scores[i]
        /\ \A j \in 1..(i - 1) : scores[j] < scores[i]

\* f"{reward:.2f}": the reward in hundredths (rewards of the model are
\* multiples of 0.01)
FormatReward(reward) == reward \div 10

\* matched_keywords: the base keywords found, in list order, and the
\* learned keywords found, each with its formatted reward
NoMatch == [ base |-> <<>>, learned |-> {} ]

MatchedKeywords(self, description, platform, i) ==
    LET dim == BASE_DESIGN_DIMENSIONS[i]
        learned == LearnedMatched(self, Lower(description), platform, dim.dimension)
    IN  [ base |-> BaseMatched(Lower(description), dim.keywords),
          learned |-> { << k, FormatReward(self.platform_keywords[Val(platform)][dim.dimension][k]) >> :
                          k \in learned } ]

classify_dimension_keywords_first(self, description, scope, explicit_dimension, platform) ==
    LET scores == [ i \in 1..Len(BASE_DESIGN_DIMENSIONS) |->
                      DimensionScore(self, description, platform, i) ]
        scored == \E i \in 1..Len(scores) : scores[i] > 0
    IN  IF scored
        THEN LET best == BestDimension(scores)
             IN  [ dimension |-> BASE_DESIGN_DIMENSIONS[best].dimension,
                   confidence |-> Min(3000, scores[best]),
                   method |-> "keywords",
                   matched_keywords |-> MatchedKeywords(self, description, platform, best),
                   platform |-> platform ]
        ELSE IF ~IsNone(explicit_dimension) /\ Val(explicit_dimension) # <<>>
        THEN [ dimension |-> Val(explicit_dimension), confidence |-> 3000,
               method |-> "explicit", matched_keywords |-> NoMatch,
               platform |-> platform ]
        ELSE IF scope # ""
        THEN [ dimension |-> SCOPE_MAPPING(scope), confidence |-> 1500,
               method |-> "scope", matched_keywords |-> NoMatch,
               platform |-> platform ]
        ELSE [ dimension |-> <<"g", "e", "n", "e", "r", "a", "l">>, confidence |-> 900,
               method |-> "fallback", matched_keywords |-> NoMatch,
               platform |-> platform ]

\* the ClassificationResult; confidence in 1/3000ths (min(1.0, score / 3.0))
classify_dimension(self, description, scope, explicit_dimension, platform) ==
    IF ~IsNone(explicit_dimension) /\ Val(explicit_dimension) # <<>>
    THEN [ dimension |-> Val(explicit_dimension), confidence |-> 3000,
           method |-> "explicit", matched_keywords |-> NoMatch,
           platform |-> platform ]
    ELSE
      LET scores == [ i \in 1..Len(BASE_DESIGN_DIMENSIONS) |->
                        DimensionScore(self, description, platform, i) ]
          scored == \E i \in 1..Len(scores) : scores[i] > 0
      IN  IF ~scored /\ scope # ""
          THEN [ dimension |-> SCOPE_MAPPING(scope), confidence |-> 1500,
                 method |-> "scope", matched_keywords |-> NoMatch,
                 platform |-> platform ]
          ELSE IF scored
          THEN LET best == BestDimension(scores)
               IN  [ dimension |-> BASE_DESIGN_DIMENSIONS[best].dimension,
                     confidence |-> Min(3000, scores[best]),
                     method |-> "keywords",
                     matched_keywords |->
                         MatchedKeywords(self, description, platform, best),
                     platform |-> platform ]
          ELSE [ dimension |-> <<"g", "e", "n", "e", "r", "a", "l">>, confidence |-> 900,
                 method |-> "fallback", matched_keywords |-> NoMatch,
                 platform |-> platform ]

----------------------------------------------------------------------------
(* Learned keywords.  A dict is a function from its keys; the empty dict    *)
(* is the empty function.  platform_keywords maps a platform to a           *)
(* dimension to a keyword to its reward (thousandths).                      *)

STOP_WORDS ==
    {
      <<"t", "h", "e">>, <<"a", "n", "d">>, <<"f", "o", "r">>,
      <<"a", "r", "e">>, <<"b", "u", "t">>, <<"n", "o", "t">>,
      <<"y", "o", "u">>, <<"a", "l", "l">>, <<"c", "a", "n">>,
      <<"h", "e", "r">>, <<"w", "a", "s">>, <<"o", "n", "e">>,
      <<"o", "u", "r">>, <<"o", "u", "t">>, <<"d", "a", "y">>,
      <<"g", "e", "t">>, <<"h", "a", "s">>, <<"h", "i", "m">>,
      <<"h", "i", "s">>, <<"h", "o", "w">>, <<"i", "t", "s">>,
      <<"m", "a", "y">>, <<"n", "e", "w">>, <<"n", "o", "w">>,
      <<"o", "l", "d">>, <<"s", "e", "e">>, <<"t", "w", "o">>,
      <<"w", "a", "y">>, <<"w", "h", "o">>, <<"b", "o", "y">>,
      <<"d", "i", "d">>, <<"u", "s", "e">>, <<"s", "h", "e">> }

Digits == { "0", "1", "2", "3", "4", "5", "6", "7", "8", "9" }

\* a character the regular expression class \w matches
IsWordChar(c) ==
    \/ \E i \in 1..26 : LowerChars[i] = c \/ UpperChars[i] = c
    \/ c \in Digits
    \/ c = "_"

\* set(re.findall(r'\b\w{3,}\b', s)): the maximal runs of word characters
\* that are at least three characters long
Words(s) ==
    LET starts == { i \in 1..Len(s) :
                      IsWordChar(s[i]) /\ (i = 1 \/ ~IsWordChar(s[i - 1])) }
        End(i) == CHOOSE j \in i..Len(s) :
                      /\ \A k \in i..j : IsWordChar(s[k])
                      /\ (j = Len(s) \/ ~IsWordChar(s[j + 1]))
    IN  { SubSeq(s, i, End(i)) : i \in { n \in starts : End(n) - n + 1 >= 3 } }

EmptyDict == <<>>

\* d[k] = v
DictSet(d, k, v) == [ x \in (DOMAIN d) \cup {k} |-> IF x = k THEN v ELSE d[x] ]

\* d.get(k, default)
DictGet(d, k, default) == IF k \in DOMAIN d THEN d[k] ELSE default

\* platform_context.get('platform', 'unknown').lower()
LearnPlatform(rule) ==
    Lower(DictGet(rule.platform_context, "platform", <<"u", "n", "k", "n", "o", "w", "n">>))

\* the significant words of a description: three characters or more, no
\* stop word
SignificantWords(description) == Words(Lower(description)) \ STOP_WORDS

\* the rule is skipped: not dimension or not description
LearnSkips(rule) ==
    \/ IsNone(rule.design_dimension)
    \/ Val(rule.design_dimension) = <<>>
    \/ rule.description = <<>>

SeedWords_rewarded(table, words) ==
    [ w \in (DOMAIN table) \cup words |->
        IF w \in DOMAIN table THEN table[w] ELSE 1000 ]

\* the keyword table after every word not yet in it got the reward 0.0
SeedWords(table, words) ==
    [ w \in (DOMAIN table) \cup words |->
        IF w \in DOMAIN table THEN table[w] ELSE 0 ]

\* one iteration of the loop of learn_from_rules on platform_keywords
LearnOne(platform_keywords, rule) ==
    IF LearnSkips(rule) THEN platform_keywords
    ELSE LET platform == LearnPlatform(rule)
             dimension == Val(rule.design_dimension)
             words == SignificantWords(rule.description)
             pk == IF platform \in DOMAIN platform_keywords
                   THEN platform_keywords
                   ELSE DictSet(platform_keywords, platform, EmptyDict)
         IN  IF words = {} THEN pk
             ELSE DictSet(pk, platform,
                          DictSet(pk[platform], dimension,
                                  SeedWords(DictGet(pk[platform], dimension,
                                                    EmptyDict), words)))

RECURSIVE LearnFrom(_, _, _)
LearnFrom(platform_keywords, rules, n) ==
    IF n > Len(rules) THEN platform_keywords
    ELSE LearnFrom(LearnOne(platform_keywords, rules[n]), rules, n + 1)

\* learn_from_rules run by one caller alone, from the first rule to the last
learn_from_rules(self, rules) ==
    [ self EXCEPT !.platform_keywords = LearnFrom(self.platform_keywords, rules, 1) ]

\* the dict learn_keywords_from_rules builds from an IntentRule
RuleDict(r) ==
    [ design_dimension |-> Rule[r].design_dimension,
      platform_context |-> IF NonEmpty(Rule[r].platform_context)
                           THEN Val(Rule[r].platform_context) ELSE EmptyDict,
      description |-> Rule[r].description ]

\* learn_keywords_from_rules: the rules with a dimension and a platform
\* context, handed to the classifier
learn_keywords_from_rules(kc, rules) ==
    LET kept == SelectSeq(rules, LAMBDA r :
                    /\ NonEmpty(Rule[r].design_dimension)
                    /\ NonEmpty(Rule[r].platform_context))
    IN  learn_from_rules(kc, [ i \in 1..Len(kept) |-> RuleDict(kept[i]) ])

\* the classifier after the heap's rules with an explicit dimension were
\* learned
LearnedClassifier ==
    learn_keywords_from_rules(PlatformKeywordClassifier, <<"rA", "rB", "rC", "rD">>)

----------------------------------------------------------------------------
(* What classify_dimension does to the tables.  Both tables are             *)
(* defaultdicts: a subscript with a missing key inserts the default, a      *)
(* membership test and items() insert nothing.                              *)

\* platform_keywords[platform], the default inserted
Subscript1(platform_keywords, platform) ==
    IF platform \in DOMAIN platform_keywords THEN platform_keywords
    ELSE DictSet(platform_keywords, platform, EmptyDict)

\* platform_keywords[platform][dimension], the defaults inserted
Subscript2(platform_keywords, platform, dimension) ==
    LET pk == IF platform \in DOMAIN platform_keywords THEN platform_keywords
              ELSE DictSet(platform_keywords, platform, EmptyDict)
    IN  IF dimension \in DOMAIN pk[platform] THEN pk
        ELSE DictSet(pk, platform, DictSet(pk[platform], dimension, EmptyDict))

ScoreSubscripts_unguarded(platform_keywords, platform, dimension) ==
    IF NonEmpty(platform)
    THEN LET pk == Subscript1(platform_keywords, Val(platform))
         IN  IF dimension \in DOMAIN pk[Val(platform)]
             THEN Subscript2(pk, Val(platform), dimension)
             ELSE pk
    ELSE platform_keywords

\* platform_keywords after the learned-keyword check of one dimension:
\* `platform and platform in self.platform_keywords`, then
\* `dimension in self.platform_keywords[platform]`, then the items of
\* self.platform_keywords[platform][dimension]
ScoreSubscripts(platform_keywords, platform, dimension) ==
    IF NonEmpty(platform) /\ Val(platform) \in DOMAIN platform_keywords
    THEN LET pk == Subscript1(platform_keywords, Val(platform))
         IN  IF dimension \in DOMAIN pk[Val(platform)]
             THEN Subscript2(pk, Val(platform), dimension)
             ELSE pk
    ELSE platform_keywords

\* platform_keywords after the scoring loop from the i-th dimension on
RECURSIVE ScoreLoop(_, _, _)
ScoreLoop(platform_keywords, platform, i) ==
    IF i > Len(BASE_DESIGN_DIMENSIONS) THEN platform_keywords
    ELSE ScoreLoop(ScoreSubscripts(platform_keywords, platform,
                                   BASE_DESIGN_DIMENSIONS[i].dimension),
                   platform, i + 1)

\* keyword_performance[platform][dimension][word], the defaults inserted
Subscript3(keyword_performance, platform, dimension, word) ==
    LET kp == Subscript2(keyword_performance, platform, dimension)
    IN  IF word \in DOMAIN kp[platform][dimension] THEN kp
        ELSE DictSet(kp, platform,
                     DictSet(kp[platform], dimension,
                             DictSet(kp[platform][dimension], word,
                                     [ correct |-> 0, total |-> 0 ])))

\* one word counted by _track_performance
TrackWord(keyword_performance, platform, predicted_dimension, is_correct, word) ==
    LET kp == Subscript3(keyword_performance, platform, predicted_dimension, word)
        perf == kp[platform][predicted_dimension][word]
    IN  DictSet(kp, platform,
                DictSet(kp[platform], predicted_dimension,
                        DictSet(kp[platform][predicted_dimension], word,
                                [ correct |-> perf.correct + (IF is_correct THEN 1 ELSE 0),
                                  total |-> perf.total + 1 ])))

RECURSIVE TrackWords(_, _, _, _, _)
TrackWords(keyword_performance, platform, predicted_dimension, is_correct, words) ==
    IF words = {} THEN keyword_performance
    ELSE LET word == CHOOSE w \in words : TRUE
         IN  TrackWords(TrackWord(keyword_performance, platform, predicted_dimension,
                                  is_correct, word),
                        platform, predicted_dimension, is_correct, words \ {word})

\* _track_performance: every word of the description is counted for the
\* predicted dimension, as correct when the prediction is the ground truth
_track_performance(self, description_words, predicted_dimension, ground_truth_dimension, platform) ==
    IF ~NonEmpty(platform) THEN self
    ELSE [ self EXCEPT !.keyword_performance =
             TrackWords(self.keyword_performance, Val(platform), predicted_dimension,
                        predicted_dimension = ground_truth_dimension,
                        description_words) ]

classify_dimension_tables_default_insert(self, description, scope, explicit_dimension, platform) ==
    IF ~IsNone(explicit_dimension) /\ Val(explicit_dimension) # <<>> THEN self
    ELSE IF ~IsNone(platform) /\ Val(platform) # <<>>
            /\ Val(platform) \notin DOMAIN self.platform_keywords
    THEN [ self EXCEPT !.platform_keywords =
             [ x \in (DOMAIN self.platform_keywords) \cup {Val(platform)} |->
                 IF x = Val(platform) THEN <<>> ELSE self.platform_keywords[x] ] ]
    ELSE self

\* the classifier object after classify_dimension: a truthy
\* explicit_dimension returns at the first branch; otherwise the scoring
\* loop runs, the scope branch returns when nothing scored, and
\* _track_performance is called when something scored and
\* explicit_dimension is truthy
classify_dimension_tables(self, description, scope, explicit_dimension, platform) ==
    IF NonEmpty(explicit_dimension) THEN self
    ELSE LET looped == [ self EXCEPT !.platform_keywords =
                           ScoreLoop(self.platform_keywords, platform, 1) ]
             ret == classify_dimension(self, description, scope,
                                          explicit_dimension, platform)
         IN  IF ret.method = "keywords" /\ NonEmpty(explicit_dimension)
             THEN _track_performance(looped, Words(Lower(description)),
                                     ret.dimension, Val(explicit_dimension),
                                     platform)
             ELSE looped

----------------------------------------------------------------------------
(* SyntheticPreferenceGenerator *)

\* __init__; thresholds, novelty and weight in hundredths
SyntheticPreferenceGenerator(high, low, min_novelty, synthetic_weight, by_dimension, by_platform, by_artifact) ==
    [ confidence_threshold_high |-> high,
      confidence_threshold_low  |-> low,
      min_novelty_score         |-> min_novelty,
      require_platform_context  |-> TRUE,
      synthetic_weight          |-> synthetic_weight,
      group_by_dimension        |-> by_dimension,
      group_by_platform         |-> by_platform,
      group_by_artifact         |-> by_artifact ]

_classify_platform(rule) ==
    IF NonEmpty(rule.platform_context)
       /\ HasTruthy(Val(rule.platform_context), "platform")
    THEN Lower(Val(rule.platform_context).platform)
    ELSE <<"u", "n", "k", "n", "o", "w", "n">>

_classify_artifact_type(rule) ==
    LET props_lower ==
            IF NonEmpty(rule.artifact_properties)
            THEN [ i \in 1..Len(Val(rule.artifact_properties)) |->
                     Lower(Val(rule.artifact_properties)[i]) ]
            ELSE <<>>
        AnyProp(keywords) ==
            \E i \in 1..Len(props_lower) : ContainsAny(props_lower[i], keywords)
        desc_lower == Lower(rule.description)
    IN  IF AnyProp(<< <<"t", "e", "x", "t">>, <<"f", "o", "n", "t">> >>) THEN <<"t", "e", "x", "t">>
        ELSE IF AnyProp(<< <<"v", "e", "c", "t", "o", "r">>, <<"p", "a", "t", "h">> >>) THEN <<"v", "e", "c", "t", "o", "r">>
        ELSE IF AnyProp(<< <<"f", "r", "a", "m", "e">>, <<"c", "o", "n", "t", "a", "i", "n", "e", "r">> >>) THEN <<"f", "r", "a", "m", "e">>
        ELSE IF AnyProp(<< <<"c", "o", "m", "p", "o", "n", "e", "n", "t">> >>) THEN <<"c", "o", "m", "p", "o", "n", "e", "n", "t">>
        ELSE IF ContainsAny(desc_lower, << <<"t", "e", "x", "t">>, <<"t", "y", "p", "o", "g", "r", "a", "p", "h", "y">> >>) THEN <<"t", "e", "x", "t">>
        ELSE IF ContainsAny(desc_lower, << <<"v", "e", "c", "t", "o", "r">>, <<"s", "h", "a", "p", "e">> >>) THEN <<"v", "e", "c", "t", "o", "r">>
        ELSE IF ContainsAny(desc_lower, << <<"f", "r", "a", "m", "e">>, <<"c", "o", "n", "t", "a", "i", "n", "e", "r">> >>) THEN <<"f", "r", "a", "m", "e">>
        ELSE IF Contains(desc_lower, <<"c", "o", "m", "p", "o", "n", "e", "n", "t">>) THEN <<"c", "o", "m", "p", "o", "n", "e", "n", "t">>
        ELSE <<"g", "e", "n", "e", "r", "a", "l">>

\* the classifications of the rules of the heap that do not depend on the
\* classifier's learned keywords, computed once
PlatformOf == [ r \in RuleRefs |-> _classify_platform(Rule[r]) ]
ArtifactTypeOf == [ r \in RuleRefs |-> _classify_artifact_type(Rule[r]) ]

\* kc is the shared keyword classifier of the generator
_classify_design_dimension(kc, r) ==
    LET platform == PlatformOf[r]
        rule == Rule[r]
    IN  classify_dimension(kc, rule.description, rule.scope,
                           rule.design_dimension,
                           IF platform # <<"u", "n", "k", "n", "o", "w", "n">> THEN Some(platform)
                           ELSE None).dimension

\* the classifier after _classify_design_dimension classified the rule
ClassifierAfterRule(kc, r) ==
    LET platform == PlatformOf[r]
        rule == Rule[r]
    IN  classify_dimension_tables(kc, rule.description, rule.scope,
                                  rule.design_dimension,
                                  IF platform # <<"u", "n", "k", "n", "o", "w", "n">> THEN Some(platform)
                                  ELSE None)

RECURSIVE ClassifierAfterRules(_, _)
\* the classifier after _classify_rules classified the rules of the pool
ClassifierAfterRules(kc, rules) ==
    IF rules = <<>> THEN kc
    ELSE ClassifierAfterRules(ClassifierAfterRule(kc, Head(rules)), Tail(rules))

Colon(a, b) == a \o <<":">> \o b

\* the group key of a rule under the enabled groupings
GroupKey(self, dimension, platform, artifact) ==
    IF self.group_by_dimension /\ self.group_by_platform /\ self.group_by_artifact
    THEN Colon(Colon(dimension, platform), artifact)
    ELSE IF self.group_by_dimension /\ self.group_by_platform
    THEN Colon(dimension, platform)
    ELSE IF self.group_by_dimension /\ self.group_by_artifact
    THEN Colon(dimension, artifact)
    ELSE IF self.group_by_platform /\ self.group_by_artifact
    THEN Colon(platform, artifact)
    ELSE IF self.group_by_dimension THEN dimension
    ELSE IF self.group_by_platform THEN platform
    ELSE IF self.group_by_artifact THEN artifact
    ELSE <<"a", "l", "l">>

RuleGroupKey(self, kc, r) ==
    GroupKey(self, _classify_design_dimension(kc, r),
             PlatformOf[r], ArtifactTypeOf[r])

_classify_rules_one_group(self, kc, rules) ==
    IF rules = <<>> THEN <<>>
    ELSE << [ group_key |-> RuleGroupKey(self, kc, rules[1]), rules |-> rules ] >>

\* the dict group_key -> rules as the list of its items: the groups in the
\* order of their first rule, each with its rules in the order of the pool
_classify_rules(self, kc, rules) ==
    LET keys == [ i \in 1..Len(rules) |-> RuleGroupKey(self, kc, rules[i]) ]
        firsts == SelectSeq([ i \in 1..Len(rules) |-> i ],
                            LAMBDA i : \A j \in 1..(i - 1) : keys[j] # keys[i])
        Members(key) ==
            LET idx == SelectSeq([ i \in 1..Len(rules) |-> i ],
                                 LAMBDA i : keys[i] = key)
            IN  [ n \in 1..Len(idx) |-> rules[idx[n]] ]
    IN  [ g \in 1..Len(firsts) |->
            [ group_key |-> keys[firsts[g]], rules |-> Members(keys[firsts[g]]) ] ]

\* (dimension, platform, artifact) read back from a group key
_parse_group_key(group_key) ==
    IF IsNone(group_key) \/ Val(group_key) = <<>> \/ Val(group_key) = <<"a", "l", "l">>
    THEN << None, None, None >>
    ELSE LET parts == Split(Val(group_key), ":")
         IN  << IF Len(parts) > 0 THEN Some(parts[1]) ELSE None,
                IF Len(parts) > 1 THEN Some(parts[2]) ELSE None,
                IF Len(parts) > 2 THEN Some(parts[3]) ELSE None >>

\* A float of the quality score: <<n, e>> is the double nearest to n/100
\* when e = 0, the next double above it when e = 1 and the next double
\* below it when e = -1.  FloatAdd is IEEE-754 addition of 0.1 (inc = 10) or
\* 0.2 (inc = 20) on the partial sums the score can take.
FloatAdd(x, inc) ==
    IF x = <<10, 0>> /\ inc = 20 THEN <<30, 1>>
    ELSE IF x = <<20, 0>> /\ inc = 10 THEN <<30, 1>>
    ELSE IF x = <<40, 0>> /\ inc = 20 THEN <<60, 1>>
    ELSE IF x = <<60, 1>> /\ inc = 10 THEN <<70, 1>>
    ELSE IF x = <<70, 0>> /\ inc = 10 THEN <<80, -1>>
    ELSE IF x = <<70, 1>> /\ inc = 20 THEN <<90, 1>>
    ELSE IF x = <<90, 1>> /\ inc = 10 THEN <<100, 1>>
    ELSE <<x[1] + inc, 0>>

\* x >= n/100 and x <= n/100 for a float x and a literal n/100
FloatGeq(x, n) == x[1] > n \/ (x[1] = n /\ x[2] >= 0)
FloatLeq(x, n) == x[1] < n \/ (x[1] = n /\ x[2] <= 0)

AddIf(cond, x, inc) == IF cond THEN FloatAdd(x, inc) ELSE x

_compute_quality_score(self, rule) ==
    LET pc == rule.platform_context
        tm == rule.training_metadata
        s1 == AddIf(rule.rule_id # "" /\ rule.description # <<>> /\ rule.scope # "",
                    <<0, 0>>, 20)
        s2 == AddIf(Len(rule.description) <= 150 /\ WordCount(rule.description) <= 20,
                    s1, 20)
        s3 == AddIf(NonEmpty(pc) /\ HasTruthy(Val(pc), "platform")
                      /\ HasTruthy(Val(pc), "extraction_method"), s2, 20)
        s4 == AddIf(NonEmpty(pc) /\ HasTruthy(Val(pc), "api_endpoints"), s3, 10)
        s5 == AddIf(NonEmpty(tm) /\ "suitable_for_training" \in DOMAIN Val(tm)
                      /\ Val(tm).suitable_for_training, s4, 20)
        s6 == AddIf(NonEmpty(tm)
                      /\ (IF "novelty_score" \in DOMAIN Val(tm)
                          THEN Val(tm).novelty_score ELSE 0)
                         >= self.min_novelty_score, s5, 10)
    IN  s6

iteration_keywords ==
    << <<"i", "t", "e", "r", "a", "t", "i", "v", "e">>,
       <<"r", "e", "f", "i", "n", "e">>, <<"a", "d", "j", "u", "s", "t">>,
       <<"r", "e", "t", "u", "r", "n">>,
       <<"r", "e", "v", "i", "s", "i", "t">>, <<"a", "g", "a", "i", "n">>,
       <<"f", "u", "r", "t", "h", "e", "r">>,
       <<"c", "o", "n", "t", "i", "n", "u", "e">>,
       <<"p", "o", "l", "i", "s", "h">>, <<"t", "w", "e", "a", "k">> >>

semantic_keywords ==
    << <<"f", "o", "r">>,
       <<"t", "o", " ", "i", "m", "p", "r", "o", "v", "e">>,
       <<"t", "o", " ", "e", "n", "h", "a", "n", "c", "e">>,
       <<"f", "o", "r", " ", "r", "e", "a", "d", "a", "b", "i", "l", "i", "t", "y">>,
       <<"f", "o", "r", " ", "h", "i", "e", "r", "a", "r", "c", "h", "y">>,
       <<"a", "l", "i", "g", "n", "m", "e", "n", "t">>,
       <<"c", "o", "n", "s", "i", "s", "t", "e", "n", "c", "y">>,
       <<"b", "a", "l", "a", "n", "c", "e">>,
       <<"e", "m", "p", "h", "a", "s", "i", "s">>,
       <<"c", "l", "a", "r", "i", "t", "y">> >>

\* the constitutional score, hundredths
_compute_constitutional_score(rule) ==
    LET desc_lower == Lower(rule.description)
        pc == rule.platform_context
        tm == rule.training_metadata
        signals == IF NonEmpty(tm) /\ "constitutional_signals" \in DOMAIN Val(tm)
                   THEN Val(tm).constitutional_signals ELSE <<>>
    IN  Min(100,
            (IF ContainsAny(desc_lower, iteration_keywords) THEN 25 ELSE 0)
          + (IF ContainsAny(desc_lower, semantic_keywords) THEN 25 ELSE 0)
          + (IF NonEmpty(pc) /\ HasTruthy(Val(pc), "platform")
                /\ HasTruthy(Val(pc), "extraction_method") THEN 15 ELSE 0)
          + (IF NonEmpty(pc) /\ (HasTruthy(Val(pc), "api_endpoints")
                                 \/ HasTruthy(Val(pc), "data_source"))
             THEN 10 ELSE 0)
          + (IF signals # <<>> THEN 15 * Min(Len(signals), 2) ELSE 0)
          + (IF NonEmpty(tm) /\ "iteration_detected" \in DOMAIN Val(tm)
                /\ Val(tm).iteration_detected THEN 15 ELSE 0))

ConstitutionalScoreOf ==
    [ r \in RuleRefs |-> _compute_constitutional_score(Rule[r]) ]

_is_complete(rule) ==
    /\ NonEmpty(rule.platform_context)
    /\ "platform" \in DOMAIN Val(rule.platform_context)
    /\ "extraction_method" \in DOMAIN Val(rule.platform_context)

\* training_metadata.get(key, default) of a rule that has training metadata
MetaGet(rule, key, default) ==
    IF key \in DOMAIN Val(rule.training_metadata)
    THEN Val(rule.training_metadata)[key] ELSE default

\* the PreferencePair of one strategy; weight in thousandths
PreferencePair(preferred, rejected, source, weight, trace_context, group_key) ==
    LET g == _parse_group_key(group_key)
    IN  [ preferred |-> preferred, rejected |-> rejected, source |-> source,
          synthetic |-> TRUE, weight |-> weight,
          trace_context |-> trace_context,
          dimension_group |-> g[1], platform_group |-> g[2],
          artifact_group |-> g[3] ]

\* for preferred in ps: for rejected in rs: every combination, in loop order
Cross(ps, rs) ==
    [ k \in 1..(Len(ps) * Len(rs)) |->
        << ps[((k - 1) \div Len(rs)) + 1], rs[((k - 1) % Len(rs)) + 1] >> ]

GuardedPairs_swapped(ps, rs, source, weight, trace_context, group_key) ==
    LET kept == SelectSeq(Cross(ps, rs),
                          LAMBDA c : Rule[c[1]].rule_id # Rule[c[2]].rule_id)
    IN  [ k \in 1..Len(kept) |->
            PreferencePair(kept[k][2], kept[k][1], source, weight,
                           trace_context, group_key) ]

\* the nested loop every strategy ends with: the combinations of a preferred
\* and a rejected rule whose rule ids differ
GuardedPairs(ps, rs, source, weight, trace_context, group_key) ==
    LET kept == SelectSeq(Cross(ps, rs),
                          LAMBDA c : Rule[c[1]].rule_id # Rule[c[2]].rule_id)
    IN  [ k \in 1..Len(kept) |->
            PreferencePair(kept[k][1], kept[k][2], source, weight,
                           trace_context, group_key) ]

_generate_confidence_pairs_unguarded(self, rules, trace_context, group_key) ==
    LET high_conf_rules ==
            SelectSeq(rules, LAMBDA r :
                Rule[r].confidence >= self.confidence_threshold_high)
        low_conf_rules ==
            SelectSeq(rules, LAMBDA r :
                Rule[r].confidence <= self.confidence_threshold_low)
        all == Cross(high_conf_rules, low_conf_rules)
    IN  [ k \in 1..Len(all) |->
            PreferencePair(all[k][1], all[k][2], "confidence",
                           10 * self.synthetic_weight, trace_context, group_key) ]

_generate_confidence_pairs(self, rules, trace_context, group_key) ==
    LET high_conf_rules ==
            SelectSeq(rules, LAMBDA r :
                Rule[r].confidence >= self.confidence_threshold_high)
        low_conf_rules ==
            SelectSeq(rules, LAMBDA r :
                Rule[r].confidence <= self.confidence_threshold_low)
    IN  GuardedPairs(high_conf_rules, low_conf_rules, "confidence",
                     10 * self.synthetic_weight, trace_context, group_key)

\* quality_score >= 0.8
IsQualityRule(self, rule) == FloatGeq(_compute_quality_score(self, rule), 80)

\* elif quality_score <= 0.5
IsPoorQualityRule(self, rule) ==
    /\ ~FloatGeq(_compute_quality_score(self, rule), 80)
    /\ FloatLeq(_compute_quality_score(self, rule), 50)

_generate_quality_pairs(self, rules, trace_context, group_key) ==
    LET quality_rules ==
            SelectSeq(rules, LAMBDA r : IsQualityRule(self, Rule[r]))
        poor_quality_rules ==
            SelectSeq(rules, LAMBDA r : IsPoorQualityRule(self, Rule[r]))
    IN  GuardedPairs(quality_rules, poor_quality_rules, "quality",
                     10 * self.synthetic_weight, trace_context, group_key)

_generate_completeness_pairs(self, rules, trace_context, group_key) ==
    LET complete_rules == SelectSeq(rules, LAMBDA r : _is_complete(Rule[r]))
        incomplete_rules == SelectSeq(rules, LAMBDA r : ~_is_complete(Rule[r]))
    IN  GuardedPairs(complete_rules, incomplete_rules, "completeness",
                     10 * self.synthetic_weight, trace_context, group_key)

_generate_novelty_pairs(self, rules, trace_context, group_key) ==
    LET novel_rules ==
            SelectSeq(rules, LAMBDA r :
                /\ NonEmpty(Rule[r].training_metadata)
                /\ MetaGet(Rule[r], "novelty_score", 50) >= 70)
        duplicate_rules ==
            SelectSeq(rules, LAMBDA r :
                /\ NonEmpty(Rule[r].training_metadata)
                /\ MetaGet(Rule[r], "novelty_score", 50) < 70
                /\ MetaGet(Rule[r], "novelty_score", 50) <= 30)
    IN  GuardedPairs(novel_rules, duplicate_rules, "novelty",
                     10 * self.synthetic_weight, trace_context, group_key)

_generate_frequency_pairs(self, rules, trace_context, group_key) ==
    LET common_rules ==
            SelectSeq(rules, LAMBDA r :
                /\ NonEmpty(Rule[r].training_metadata)
                /\ MetaGet(Rule[r], "pattern_frequency", "uncommon") = "common")
        rare_rules ==
            SelectSeq(rules, LAMBDA r :
                /\ NonEmpty(Rule[r].training_metadata)
                /\ MetaGet(Rule[r], "pattern_frequency", "uncommon") = "rare")
    IN  GuardedPairs(common_rules, rare_rules, "frequency",
                     10 * self.synthetic_weight, trace_context, group_key)

\* constitutional pairs weigh synthetic_weight * 1.2
_generate_constitutional_pairs(self, rules, trace_context, group_key) ==
    LET constitutional_rules ==
            SelectSeq(rules, LAMBDA r :
                ConstitutionalScoreOf[r] >= 70)
        weak_rules ==
            SelectSeq(rules, LAMBDA r :
                /\ ConstitutionalScoreOf[r] < 70
                /\ ConstitutionalScoreOf[r] <= 40)
    IN  GuardedPairs(constitutional_rules, weak_rules, "constitutional",
                     12 * self.synthetic_weight, trace_context, group_key)

RECURSIVE Flatten(_)
\* the concatenation of a list of lists
Flatten(ss) == IF ss = <<>> THEN <<>> ELSE ss[1] \o Flatten(Tail(ss))

_deduplicate_pairs_last_wins(pairs) ==
    LET Key(p) == << Rule[p.preferred].rule_id, Rule[p.rejected].rule_id >>
        keep == SelectSeq([ i \in 1..Len(pairs) |-> i ],
                          LAMBDA i : \A j \in (i + 1)..Len(pairs) :
                              Key(pairs[j]) # Key(pairs[i]))
    IN  [ n \in 1..Len(keep) |-> pairs[keep[n]] ]

\* keep the first pair of every (preferred.rule_id, rejected.rule_id)
_deduplicate_pairs(pairs) ==
    LET Key(p) == << Rule[p.preferred].rule_id, Rule[p.rejected].rule_id >>
        keep == SelectSeq([ i \in 1..Len(pairs) |-> i ],
                          LAMBDA i : \A j \in 1..(i - 1) :
                              Key(pairs[j]) # Key(pairs[i]))
    IN  [ n \in 1..Len(keep) |-> pairs[keep[n]] ]

DefaultStrategies ==
    { "confidence", "quality", "completeness", "novelty", "frequency",
      "constitutional" }

\* the pairs of one group, strategy after strategy in the fixed order
GroupPairs(self, strategies, group, trace_context) ==
    LET key == Some(group.group_key)
        On(name, pairs) == IF name \in strategies THEN pairs ELSE <<>>
    IN  IF Len(group.rules) < 2 THEN <<>>
        ELSE Flatten(<<
          On("confidence",
             _generate_confidence_pairs(self, group.rules, trace_context, key)),
          On("quality",
             _generate_quality_pairs(self, group.rules, trace_context, key)),
          On("completeness",
             _generate_completeness_pairs(self, group.rules, trace_context, key)),
          On("novelty",
             _generate_novelty_pairs(self, group.rules, trace_context, key)),
          On("frequency",
             _generate_frequency_pairs(self, group.rules, trace_context, key)),
          On("constitutional",
             _generate_constitutional_pairs(self, group.rules, trace_context, key)) >>)

generate_preferences_unknown_runs_all(self, kc, rules, trace_context, strategies) ==
    LET strats == IF IsNone(strategies) \/ Val(strategies) \ DefaultStrategies # {}
                  THEN DefaultStrategies ELSE Val(strategies)
        classified_rules == _classify_rules(self, kc, rules)
        all_pairs ==
            Flatten([ g \in 1..Len(classified_rules) |->
                        GroupPairs(self, strats, classified_rules[g], trace_context) ])
    IN  _deduplicate_pairs(all_pairs)

\* strategies is None (the six default strategies) or a present set of names
generate_preferences(self, kc, rules, trace_context, strategies) ==
    LET strats == IF IsNone(strategies) THEN DefaultStrategies ELSE Val(strategies)
        classified_rules == _classify_rules(self, kc, rules)
        all_pairs ==
            Flatten([ g \in 1..Len(classified_rules) |->
                        GroupPairs(self, strats, classified_rules[g], trace_context) ])
    IN  _deduplicate_pairs(all_pairs)

----------------------------------------------------------------------------
(* Specification of the preference generator: one generator per            *)
(* configuration, generate_preferences applied to every pool of rules      *)

\* rules in one pool
MaxPool == 3

RECURSIVE SeqsUpTo(_, _)
SeqsUpTo(S, n) ==
    IF n = 0 THEN { <<>> }
    ELSE LET shorter == SeqsUpTo(S, n - 1)
         IN  shorter \cup { Append(s, x) : s \in shorter, x \in S }

\* the lists of rule objects handed to generate_preferences
Pools == SeqsUpTo(RuleRefs, MaxPool)

\* default thresholds 0.7 / 0.4, and a configuration with high <= low
Thresholds == { <<70, 40>>, <<50, 50>> }

Generators ==
    { SyntheticPreferenceGenerator(t[1], t[2], 30, 30, d, p, a) :
        t \in Thresholds, d \in BOOLEAN, p \in BOOLEAN, a \in BOOLEAN }

\* the strategies argument: None, or a list of names (held as their set,
\* the code only tests membership)
StrategyLists ==
    {None, Some({}), Some({"bogus"}), Some(DefaultStrategies \cup {"bogus"}),
     Some({"confidence", "quality"})}
    \cup { Some({s}) : s \in DefaultStrategies }

TraceContexts == { None, Some([trace_id |-> "test", platform |-> "figma"]) }

InitGen ==
    /\ env = DesignEnvironment(10, 5, 2)
    /\ result = NoCall
    /\ accepted = FALSE
    /\ eventful = 0
    /\ gen \in Generators
    /\ keyword_classifier = PlatformKeywordClassifier
    /\ out = NoCall
    /\ prev = NoCall
    /\ files = NoFiles
    /\ loaded = NoClassifier
    /\ callers = NoCallers

\* the call changes nothing in the generator, so one call per argument
\* list from a state in which no output is held covers all of them
GeneratePreferences ==
    /\ out.op # "generate_preferences"
    /\ \E rules \in Pools, c \in TraceContexts, s \in StrategyLists :
          /\ out' = [ op     |-> "generate_preferences",
                      args   |-> [ rules |-> rules, trace_context |-> c,
                                   strategies |-> s ],
                      raised |-> "",
                      ret    |-> generate_preferences(gen, keyword_classifier, rules, c, s) ]
          /\ keyword_classifier' = ClassifierAfterRules(keyword_classifier, rules)
    /\ prev' = out
    /\ UNCHANGED <<env, result, accepted, eventful, gen>>
    /\ UNCHANGED clsvars

NextGen == GeneratePreferences

SpecGen == InitGen /\ [][NextGen]_vars

\* C10: no pair returned by generate_preferences has the same rule id on
\* its preferred and its rejected side, whatever the pool (two objects may
\* share an id), the strategies and the thresholds (high <= low included).
C10_NoSelfPair ==
    out.op = "generate_preferences" =>
        \A k \in 1..Len(out.ret) :
            Rule[out.ret[k].preferred].rule_id # Rule[out.ret[k].rejected].rule_id

\* a rule that is both a high- and a low-confidence rule, and two objects
\* with one id, in a pool that still yields a pair
C10_Witness ==
    /\ out.op = "generate_preferences"
    /\ gen.confidence_threshold_high <= gen.confidence_threshold_low
    /\ out.args.rules = <<"rA", "rD", "rC">>
    /\ out.args.strategies = Some({"confidence"})
    /\ ~gen.group_by_dimension
    /\ Len(out.ret) = 2
    /\ out.ret[1].preferred = "rA" /\ out.ret[1].rejected = "rD"
    /\ out.ret[2].preferred = "rD" /\ out.ret[2].rejected = "rC"

----------------------------------------------------------------------------
(* Deduplication inside one call                                            *)

\* the order in which generate_preferences tries the strategies
StrategyOrder ==
    << "confidence", "quality", "completeness", "novelty", "frequency",
       "constitutional" >>

\* the pairs one strategy function returns for one group
StrategyPairs(self, name, rules, trace_context, group_key) ==
    CASE name = "confidence" ->
            _generate_confidence_pairs(self, rules, trace_context, group_key)
      [] name = "quality" ->
            _generate_quality_pairs(self, rules, trace_context, group_key)
      [] name = "completeness" ->
            _generate_completeness_pairs(self, rules, trace_context, group_key)
      [] name = "novelty" ->
            _generate_novelty_pairs(self, rules, trace_context, group_key)
      [] name = "frequency" ->
            _generate_frequency_pairs(self, rules, trace_context, group_key)
      [] name = "constitutional" ->
            _generate_constitutional_pairs(self, rules, trace_context, group_key)

\* the deduplication key of a pair
PairKey(p) == << Rule[p.preferred].rule_id, Rule[p.rejected].rule_id >>

\* the strategies a call runs
Requested(strategies) ==
    IF IsNone(strategies) THEN DefaultStrategies ELSE Val(strategies)

\* the first pair with key k that the call generates: first group in order
\* of first appearance, first strategy in the fixed order, first in the
\* strategy's own list; None when no enabled strategy produces k
FirstGenerated(self, kc, rules, trace_context, strategies, k) ==
    LET groups == _classify_rules(self, kc, rules)
        Out(g, s) ==
            IF Len(groups[g].rules) >= 2 /\ StrategyOrder[s] \in Requested(strategies)
            THEN SelectSeq(StrategyPairs(self, StrategyOrder[s], groups[g].rules,
                                         trace_context, Some(groups[g].group_key)),
                           LAMBDA p : PairKey(p) = k)
            ELSE <<>>
        hits == { gs \in (1..Len(groups)) \X (1..Len(StrategyOrder)) :
                    Out(gs[1], gs[2]) # <<>> }
    IN  IF hits = {} THEN None
        ELSE LET first == CHOOSE a \in hits : \A b \in hits :
                              \/ a[1] < b[1]
                              \/ a[1] = b[1] /\ a[2] <= b[2]
             IN  Some(Out(first[1], first[2])[1])

\* C11: the list one generate_preferences call returns holds at most one
\* pair per key (preferred.rule_id, rejected.rule_id), and the pair kept
\* for a key is the first one generated for it (groups in order of first
\* appearance, then the strategies in their fixed order), so its source is
\* that of the earliest enabled strategy producing the key.
C11_FirstPairSurvives ==
    out.op = "generate_preferences" =>
        /\ \A i, j \in 1..Len(out.ret) :
               i # j => PairKey(out.ret[i]) # PairKey(out.ret[j])
        /\ \A i \in 1..Len(out.ret) :
               Some(out.ret[i]) =
                   FirstGenerated(gen, keyword_classifier, out.args.rules,
                                  out.args.trace_context, out.args.strategies,
                                  PairKey(out.ret[i]))

\* one key produced by the confidence strategy and again by later ones:
\* the confidence pair is the one returned
C11_Witness ==
    /\ out.op = "generate_preferences"
    /\ out.args.rules = <<"rA", "rB">>
    /\ out.args.strategies = None
    /\ Len(out.ret) = 1
    /\ out.ret[1].source = "confidence"
    /\ \E p \in { _generate_frequency_pairs(gen, out.args.rules, None, None)[n] :
                     n \in 1..Len(_generate_frequency_pairs(gen, out.args.rules, None, None)) } :
          PairKey(p) = PairKey(out.ret[1])

----------------------------------------------------------------------------
(* generate_from_trace_batch: one generate_preferences call per trace      *)

\* traces in one batch
MaxTraces == 2

TraceIds == << "trace_1", "trace_2", "trace_3" >>

\* trace_rules is a dict: a list of (trace_id, rules) items with distinct
\* trace ids, in insertion order; the loop extends all_pairs with the pairs
\* of each trace in turn
generate_from_trace_batch(self, kc, trace_rules, strategies) ==
    Flatten([ n \in 1..Len(trace_rules) |->
                generate_preferences(self, kc, trace_rules[n].rules,
                                     Some([ trace_id |-> trace_rules[n].trace_id ]),
                                     strategies) ])

\* the rule lists of the traces
BatchPools ==
    { <<>>, <<"rA", "rB">>, <<"rB", "rA">>, <<"rA", "rD">>, <<"rC", "rB">>,
      <<"rA", "rB", "rD">> }

\* the dicts of up to MaxTraces traces
TraceRules ==
    UNION { [ 1..n -> BatchPools ] : n \in 0..MaxTraces }

BatchStrategyLists ==
    { None, Some({"confidence"}), Some({"frequency", "bogus"}) }

BatchGenerators ==
    { SyntheticPreferenceGenerator(t[1], t[2], 30, 30, d, FALSE, FALSE) :
        t \in Thresholds, d \in BOOLEAN }

InitBatch ==
    /\ env = DesignEnvironment(10, 5, 2)
    /\ result = NoCall
    /\ accepted = FALSE
    /\ eventful = 0
    /\ gen \in BatchGenerators
    /\ keyword_classifier = PlatformKeywordClassifier
    /\ out = NoCall
    /\ prev = NoCall
    /\ files = NoFiles
    /\ loaded = NoClassifier
    /\ callers = NoCallers

GenerateFromTraceBatch ==
    /\ out.op # "generate_from_trace_batch"
    /\ \E pools \in TraceRules, s \in BatchStrategyLists :
          LET trace_rules == [ n \in 1..Len(pools) |->
                                 [ trace_id |-> TraceIds[n], rules |-> pools[n] ] ]
          IN  /\ out' = [ op     |-> "generate_from_trace_batch",
                          args   |-> [ trace_rules |-> trace_rules, strategies |-> s ],
                          raised |-> "",
                          ret    |-> generate_from_trace_batch(gen, keyword_classifier,
                                                               trace_rules, s) ]
              /\ keyword_classifier' =
                     ClassifierAfterRules(keyword_classifier, Flatten(pools))
    /\ UNCHANGED <<env, result, accepted, eventful, gen, prev>>
    /\ UNCHANGED clsvars

NextBatch == GenerateFromTraceBatch

SpecBatch == InitBatch /\ [][NextBatch]_vars

\* C12: in the list generate_from_trace_batch assembles from the per-trace
\* generate_preferences calls, no two pairs have the same key
\* (preferred.rule_id, rejected.rule_id).
C12_BatchDeduplicated ==
    out.op = "generate_from_trace_batch" =>
        \A i, j \in 1..Len(out.ret) :
            i # j => PairKey(out.ret[i]) # PairKey(out.ret[j])

----------------------------------------------------------------------------
(* Partition groups                                                         *)

\* the rules of a list, as a set
Elems(rules) == { rules[i] : i \in 1..Len(rules) }

\* the two rules agree on every classification the generator groups by
SameEnabledClasses(self, kc, a, b) ==
    /\ self.group_by_dimension =>
           _classify_design_dimension(kc, a) = _classify_design_dimension(kc, b)
    /\ self.group_by_platform => PlatformOf[a] = PlatformOf[b]
    /\ self.group_by_artifact => ArtifactTypeOf[a] = ArtifactTypeOf[b]

\* C13: every pair generate_preferences returns joins two rules of one
\* partition group (equal group key, hence equal dimension, platform and
\* artifact type for each enabled grouping), that group has at least two
\* rules, and with the three groupings disabled the only group is "all".
C13_PairsWithinGroup ==
    out.op = "generate_preferences" =>
        LET groups == _classify_rules(gen, keyword_classifier, out.args.rules)
        IN  /\ \A k \in 1..Len(out.ret) :
                   LET p == out.ret[k]
                   IN  /\ RuleGroupKey(gen, keyword_classifier, p.preferred)
                            = RuleGroupKey(gen, keyword_classifier, p.rejected)
                       /\ SameEnabledClasses(gen, keyword_classifier,
                                             p.preferred, p.rejected)
                       /\ \E g \in 1..Len(groups) :
                              /\ Len(groups[g].rules) >= 2
                              /\ p.preferred \in Elems(groups[g].rules)
                              /\ p.rejected \in Elems(groups[g].rules)
            /\ (~gen.group_by_dimension /\ ~gen.group_by_platform
                    /\ ~gen.group_by_artifact /\ out.args.rules # <<>>)
                  => /\ Len(groups) = 1
                     /\ groups[1].group_key = <<"a", "l", "l">>
                     /\ groups[1].rules = out.args.rules

\* a pool split into two groups by dimension: the pair comes from the
\* group of two, and the rule alone in its group is in no pair although
\* its confidence is below the low threshold
C13_Witness ==
    /\ out.op = "generate_preferences"
    /\ gen.group_by_dimension
    /\ out.args.rules = <<"rA", "rB", "rD">>
    /\ out.args.strategies = Some({"confidence"})
    /\ Len(_classify_rules(gen, keyword_classifier, out.args.rules)) = 2
    /\ Rule["rB"].confidence <= gen.confidence_threshold_low
    /\ Len(out.ret) = 1
    /\ out.ret[1].preferred = "rA"
    /\ out.ret[1].rejected = "rD"

----------------------------------------------------------------------------
(* Pair weights.  synthetic_weight is held in hundredths and the weight of  *)
(* a pair in thousandths: 10 * synthetic_weight, and 12 * synthetic_weight  *)
(* for the constitutional strategy (synthetic_weight * 1.2).                *)

\* configured synthetic weights between 0.0 and 1.0
SyntheticWeights == { 0, 30, 80, 90, 100 }

WeightGenerators ==
    { SyntheticPreferenceGenerator(70, 40, 30, w, d, FALSE, FALSE) :
        w \in SyntheticWeights, d \in BOOLEAN }

InitWeight ==
    /\ env = DesignEnvironment(10, 5, 2)
    /\ result = NoCall
    /\ accepted = FALSE
    /\ eventful = 0
    /\ gen \in WeightGenerators
    /\ keyword_classifier = PlatformKeywordClassifier
    /\ out = NoCall
    /\ prev = NoCall
    /\ files = NoFiles
    /\ loaded = NoClassifier
    /\ callers = NoCallers

SpecWeight == InitWeight /\ [][NextGen]_vars

\* C14: for a synthetic_weight in [0.0, 1.0] every pair returned by
\* generate_preferences has a weight in [0.0, 1.0], the constitutional
\* pairs with their factor 1.2 included.
C14_WeightInUnitInterval ==
    (out.op = "generate_preferences" /\ gen.synthetic_weight \in 0..100) =>
        \A k \in 1..Len(out.ret) :
            out.ret[k].weight >= 0 /\ out.ret[k].weight <= 1000

----------------------------------------------------------------------------
(* Unknown strategy names                                                   *)

\* the names of a requested list that are none of the six strategies
UnknownNames(strategies) ==
    IF IsNone(strategies) THEN {} ELSE Val(strategies) \ DefaultStrategies

\* C15: a requested strategy name that is none of the six known names is
\* ignored: the call raises nothing and returns what it returns for the
\* same list without the unknown names (nothing when only unknown names
\* are requested).
C15_UnknownStrategyIgnored ==
    (out.op = "generate_preferences" /\ UnknownNames(out.args.strategies) # {}) =>
        /\ out.raised = ""
        /\ out.ret = generate_preferences(gen, keyword_classifier, out.args.rules,
                                          out.args.trace_context,
                                          Some(Val(out.args.strategies)
                                                 \cap DefaultStrategies))
        /\ Val(out.args.strategies) \cap DefaultStrategies = {} => out.ret = <<>>

\* an unknown name next to the six known ones, on a pool that yields a pair
C15_Witness ==
    /\ out.op = "generate_preferences"
    /\ out.args.strategies = Some(DefaultStrategies \cup {"bogus"})
    /\ out.args.rules = <<"rA", "rB">>
    /\ ~gen.group_by_dimension
    /\ out.raised = ""
    /\ Len(out.ret) >= 1

----------------------------------------------------------------------------
(* The confidence example                                                   *)

\* a call with the default thresholds and the confidence strategy alone on
\* a pool of two rules with distinct ids on one platform, the first of
\* confidence >= 0.7 and the second of confidence <= 0.4
ExampleCall ==
    /\ out.op = "generate_preferences"
    /\ gen.confidence_threshold_high = 70
    /\ gen.confidence_threshold_low = 40
    /\ out.args.strategies = Some({"confidence"})
    /\ Len(out.args.rules) = 2
    /\ Rule[out.args.rules[1]].rule_id # Rule[out.args.rules[2]].rule_id
    /\ PlatformOf[out.args.rules[1]] = PlatformOf[out.args.rules[2]]
    /\ Rule[out.args.rules[1]].confidence >= 70
    /\ Rule[out.args.rules[2]].confidence <= 40

\* exactly one pair: the first rule preferred to the second, by confidence
ExampleResult ==
    /\ Len(out.ret) = 1
    /\ out.ret[1].preferred = out.args.rules[1]
    /\ out.ret[1].rejected = out.args.rules[2]
    /\ out.ret[1].source = "confidence"

\* C16 as stated: with default thresholds, a pool of two rules with
\* distinct ids on the same platform, one of confidence >= 0.7 and one of
\* confidence <= 0.4, and strategies = ['confidence'], the call returns
\* exactly one pair (high preferred to low, source 'confidence').
C16_ExamplePair ==
    ExampleCall => ExampleResult

\* C16 amended: the same, provided the two rules fall into one partition
\* group (as when the three groupings are disabled); rules in different
\* groups yield no pair.
C16_ExamplePairSameGroup ==
    ExampleCall =>
        IF RuleGroupKey(gen, keyword_classifier, out.args.rules[1])
             = RuleGroupKey(gen, keyword_classifier, out.args.rules[2])
        THEN ExampleResult
        ELSE out.ret = <<>>

\* the example of the specification with the groupings disabled
C16_Witness ==
    /\ ExampleCall
    /\ out.args.rules = <<"rA", "rB">>
    /\ ~gen.group_by_dimension /\ ~gen.group_by_platform /\ ~gen.group_by_artifact
    /\ out.args.trace_context = Some([trace_id |-> "test", platform |-> "figma"])
    /\ ExampleResult

----------------------------------------------------------------------------
(* Two calls in a row                                                       *)

TwiceClassifiers == { PlatformKeywordClassifier, LearnedClassifier }

InitTwice ==
    /\ env = DesignEnvironment(10, 5, 2)
    /\ result = NoCall
    /\ accepted = FALSE
    /\ eventful = 0
    /\ gen \in BatchGenerators
    /\ keyword_classifier \in TwiceClassifiers
    /\ out = NoCall
    /\ prev = NoCall
    /\ files = NoFiles
    /\ loaded = NoClassifier
    /\ callers = NoCallers

\* rules in the pool of the repeated call
MaxTwicePool == 2

TwicePools == SeqsUpTo(RuleRefs, MaxTwicePool) \cup { <<"rA", "rD", "rB">> }

\* generate_preferences called on the generator, and called once more
\* with the arguments of the call before
GeneratePreferencesTwice ==
    /\ prev.op # "generate_preferences"
    /\ \E rules \in TwicePools, c \in TraceContexts, s \in BatchStrategyLists :
          /\ out.op = "generate_preferences" =>
                 out.args = [ rules |-> rules, trace_context |-> c, strategies |-> s ]
          /\ out' = [ op     |-> "generate_preferences",
                      args   |-> [ rules |-> rules, trace_context |-> c,
                                   strategies |-> s ],
                      raised |-> "",
                      ret    |-> generate_preferences(gen, keyword_classifier, rules, c, s) ]
          /\ keyword_classifier' = ClassifierAfterRules(keyword_classifier, rules)
    /\ prev' = out
    /\ UNCHANGED <<env, result, accepted, eventful, gen>>
    /\ UNCHANGED clsvars

NextTwice == GeneratePreferencesTwice

SpecTwice == InitTwice /\ [][NextTwice]_vars

\* the (preferred.rule_id, rejected.rule_id, source) triples of a list
Triples(pairs) ==
    { << Rule[pairs[k].preferred].rule_id, Rule[pairs[k].rejected].rule_id,
         pairs[k].source >> : k \in 1..Len(pairs) }

\* the second of two calls with the same arguments has returned
CalledTwice ==
    /\ out.op = "generate_preferences"
    /\ prev.op = "generate_preferences"
    /\ prev.args = out.args

----------------------------------------------------------------------------
(* classify_dimension on its own                                            *)

\* a classifier whose tables hold rewarded keywords, as update_rewards or
\* load leave them
RewardedClassifier ==
    [ platform_keywords |->
        DictSet(EmptyDict, <<"f", "i", "g", "m", "a">>,
            DictSet(DictSet(EmptyDict, <<"s", "p", "a", "c", "i", "n", "g">>,
                            DictSet(DictSet(EmptyDict, <<"a", "d", "j", "u", "s", "t">>, 750), <<"s", "p", "a", "c", "i", "n", "g">>, 0)),
                    <<"c", "o", "l", "o", "r">>, DictSet(EmptyDict, <<"s", "o", "m", "e", "t", "h", "i", "n", "g">>, 500))),
      keyword_performance |->
        DictSet(EmptyDict, <<"f", "i", "g", "m", "a">>,
            DictSet(EmptyDict, <<"s", "p", "a", "c", "i", "n", "g">>,
                DictSet(EmptyDict, <<"a", "d", "j", "u", "s", "t">>, [ correct |-> 3, total |-> 4 ]))) ]

Classifiers ==
    { PlatformKeywordClassifier, LearnedClassifier, RewardedClassifier }

\* descriptions: those of the heap's rules, the empty one, one that holds
\* no base keyword
ProbeDescriptions == KnownDescriptions \cup { <<>>, <<"s", "o", "m", "e", "t", "h", "i", "n", "g">> }

\* scope: "" stands for None and for the empty string, "other" for a scope
\* outside SCOPE_MAPPING
ProbeScopes ==
    { "", "structural", "relational", "compositional", "artifact_property",
      "other" }

ProbeExplicit == { None, Some(<<>>), Some(<<"s", "p", "a", "c", "i", "n", "g">>), Some(<<"b", "r", "a", "n", "d">>) }

ProbePlatforms == { None, Some(<<>>), Some(<<"f", "i", "g", "m", "a">>), Some(<<"c", "a", "n", "v", "a">>) }

InitClassify ==
    /\ env = DesignEnvironment(10, 5, 2)
    /\ result = NoCall
    /\ accepted = FALSE
    /\ eventful = 0
    /\ gen = NoGenerator
    /\ keyword_classifier \in Classifiers
    /\ out = NoCall
    /\ prev = NoCall
    /\ files = NoFiles
    /\ loaded = NoClassifier
    /\ callers = NoCallers

ClassifyDimension ==
    /\ out.op # "classify_dimension"
    /\ \E d \in ProbeDescriptions, sc \in ProbeScopes, e \in ProbeExplicit,
          p \in ProbePlatforms :
          /\ out' = [ op     |-> "classify_dimension",
                      args   |-> [ description |-> d, scope |-> sc,
                                   explicit_dimension |-> e, platform |-> p ],
                      raised |-> "",
                      ret    |-> classify_dimension(keyword_classifier, d, sc, e, p) ]
          /\ keyword_classifier' =
                 classify_dimension_tables(keyword_classifier, d, sc, e, p)
    /\ UNCHANGED <<env, result, accepted, eventful, gen, prev>>
    /\ UNCHANGED clsvars

NextClassify == ClassifyDimension

SpecClassify == InitClassify /\ [][NextClassify]_vars

\* the scores of the base dimensions for the arguments of the last call
CallScores ==
    [ i \in 1..Len(BASE_DESIGN_DIMENSIONS) |->
        DimensionScore(keyword_classifier, out.args.description,
                       out.args.platform, i) ]

\* C18: with a non-empty explicit_dimension classify_dimension returns it
\* verbatim with confidence 1.0 and method 'explicit', whatever the other
\* arguments and the learned keywords; otherwise a dimension that scores
\* above 0 wins (method 'keywords'), else the scope mapping (confidence
\* 0.5, method 'scope'), else 'general' with confidence 0.3 and method
\* 'fallback'.
C18_ResolutionOrder ==
    out.op = "classify_dimension" =>
        LET a == out.args
            r == out.ret
            explicit == NonEmpty(a.explicit_dimension)
            scored == \E i \in 1..Len(CallScores) : CallScores[i] > 0
        IN  /\ explicit =>
                 /\ r.dimension = Val(a.explicit_dimension)
                 /\ r.confidence = 3000
                 /\ r.method = "explicit"
            /\ (~explicit /\ scored) =>
                 /\ r.method = "keywords"
                 /\ \E i \in 1..Len(CallScores) :
                       /\ r.dimension = BASE_DESIGN_DIMENSIONS[i].dimension
                       /\ CallScores[i] > 0
                       /\ \A j \in 1..Len(CallScores) : CallScores[j] <= CallScores[i]
            /\ (~explicit /\ ~scored /\ a.scope # "") =>
                 /\ r.method = "scope"
                 /\ r.confidence = 1500
                 /\ r.dimension = SCOPE_MAPPING(a.scope)
            /\ (~explicit /\ ~scored /\ a.scope = "") =>
                 /\ r.method = "fallback"
                 /\ r.confidence = 900
                 /\ r.dimension = <<"g", "e", "n", "e", "r", "a", "l">>

\* an explicit dimension given with a description that holds base and
\* learned keywords of another dimension
C18_Witness ==
    /\ out.op = "classify_dimension"
    /\ keyword_classifier = RewardedClassifier
    /\ out.args.explicit_dimension = Some(<<"b", "r", "a", "n", "d">>)
    /\ out.args.description = Rule["rC"].description
    /\ out.args.platform = Some(<<"f", "i", "g", "m", "a">>)
    /\ out.args.scope = "structural"
    /\ CallScores[CHOOSE i \in 1..Len(CallScores) :
                    BASE_DESIGN_DIMENSIONS[i].dimension = <<"s", "p", "a", "c", "i", "n", "g">>] > 1000
    /\ out.ret.method = "explicit"
    /\ out.ret.dimension = <<"b", "r", "a", "n", "d">>

----------------------------------------------------------------------------
(* save and load.  A file holds a JSON document: an object is a function    *)
(* from its member names to JSON values, a number is tagged with the form   *)
(* json.dump writes it in (a float with a fraction, an int without).        *)

JsonObject(members) == [ kind |-> "object", members |-> members ]
JsonFloat(x) == [ kind |-> "number", fraction |-> TRUE, value |-> x ]
JsonInt(n) == [ kind |-> "number", fraction |-> FALSE, value |-> n ]

\* the dict json.load builds from an object, the float or int from a number
Members(json) == json.members
Number(json) == json.value

\* the document save writes: the two tables, every level as a plain dict
save(self) ==
    JsonObject(
      [ platform_keywords |->
          JsonObject([ k \in DOMAIN self.platform_keywords |->
            JsonObject([ dk \in DOMAIN self.platform_keywords[k] |->
              JsonObject([ kw \in DOMAIN self.platform_keywords[k][dk] |->
                JsonFloat(self.platform_keywords[k][dk][kw]) ]) ]) ]),
        keyword_performance |->
          JsonObject([ k \in DOMAIN self.keyword_performance |->
            JsonObject([ dk \in DOMAIN self.keyword_performance[k] |->
              JsonObject([ kw \in DOMAIN self.keyword_performance[k][dk] |->
                JsonObject([ f \in DOMAIN self.keyword_performance[k][dk][kw] |->
                  JsonInt(self.keyword_performance[k][dk][kw][f]) ]) ]) ]) ]) ])

\* data.get(name, {}) on the parsed document
DataGet(data, name) ==
    IF name \in DOMAIN Members(data) THEN Members(data)[name]
    ELSE JsonObject(EmptyDict)

\* pv.get(name, 0)
PerfGet(pv, name) ==
    IF name \in DOMAIN Members(pv) THEN Number(Members(pv)[name]) ELSE 0

load_without_performance(self, data) ==
    LET pk == DataGet(data, "platform_keywords")
    IN  [ platform_keywords |->
            [ k \in DOMAIN Members(pk) |->
              [ dk \in DOMAIN Members(Members(pk)[k]) |->
                [ kw \in DOMAIN Members(Members(Members(pk)[k])[dk]) |->
                    Number(Members(Members(Members(pk)[k])[dk])[kw]) ] ] ],
          keyword_performance |-> self.keyword_performance ]

\* the classifier after load read the document: both tables are replaced
load(self, data) ==
    LET pk == DataGet(data, "platform_keywords")
        kp == DataGet(data, "keyword_performance")
    IN  [ platform_keywords |->
            [ k \in DOMAIN Members(pk) |->
              [ dk \in DOMAIN Members(Members(pk)[k]) |->
                [ kw \in DOMAIN Members(Members(Members(pk)[k])[dk]) |->
                    Number(Members(Members(Members(pk)[k])[dk])[kw]) ] ] ],
          keyword_performance |->
            [ k \in DOMAIN Members(kp) |->
              [ dk \in DOMAIN Members(Members(kp)[k]) |->
                [ kw \in DOMAIN Members(Members(Members(kp)[k])[dk]) |->
                    [ correct |-> PerfGet(Members(Members(Members(kp)[k])[dk])[kw],
                                          "correct"),
                      total |-> PerfGet(Members(Members(Members(kp)[k])[dk])[kw],
                                        "total") ] ] ] ] ]

\* rule dicts handed to learn_from_rules
LearnDicts ==
    { [ design_dimension |-> Some(<<"s", "p", "a", "c", "i", "n", "g">>),
        platform_context |-> [ platform |-> <<"F", "i", "g", "m", "a">> ],
        description |-> <<"A", "d", "j", "u", "s", "t", " ", "s", "p", "a", "c", "i", "n", "g">> ],
      [ design_dimension |-> Some(<<"c", "o", "l", "o", "r">>),
        platform_context |-> [ platform |-> <<"f", "i", "g", "m", "a">> ],
        description |-> <<"U", "s", "e", " ", "t", "h", "e", " ", "b", "r", "a", "n", "d", " ", "h", "u", "e">> ],
      [ design_dimension |-> Some(<<"s", "p", "a", "c", "i", "n", "g">>),
        platform_context |-> EmptyDict,
        description |-> <<"A", "d", "d", " ", "g", "a", "p">> ],
      [ design_dimension |-> None,
        platform_context |-> [ platform |-> <<"f", "i", "g", "m", "a">> ],
        description |-> <<"A", "d", "j", "u", "s", "t", " ", "s", "p", "a", "c", "i", "n", "g">> ] }

\* rules in one learn_from_rules call
MaxLearnRules == 1

LearnLists == SeqsUpTo(LearnDicts, MaxLearnRules)

Paths == { "learned_keywords.json" }

InitSaveLoad ==
    /\ env = DesignEnvironment(10, 5, 2)
    /\ result = NoCall
    /\ accepted = FALSE
    /\ eventful = 0
    /\ gen = NoGenerator
    /\ keyword_classifier \in Classifiers
    /\ out = NoCall
    /\ prev = NoCall
    /\ files = NoFiles
    /\ loaded = NoClassifier
    /\ callers = NoCallers

\* learn_from_rules run to its end by one caller
LearnFromRules ==
    /\ \E rules \in LearnLists :
          /\ keyword_classifier' = learn_from_rules(keyword_classifier, rules)
          /\ out' = [ op |-> "learn_from_rules", args |-> [ rules |-> rules ],
                      raised |-> "", ret |-> None ]
    /\ UNCHANGED <<env, result, accepted, eventful, gen, prev, files, loaded,
                   callers>>

\* keyword_classifier.save(path)
Save ==
    /\ \E path \in Paths :
          /\ files' = DictSet(files, path, save(keyword_classifier))
          /\ out' = [ op |-> "save", args |-> [ path |-> path ],
                      raised |-> "", ret |-> None ]
    /\ UNCHANGED <<env, result, accepted, eventful, gen, keyword_classifier,
                   prev, loaded, callers>>

\* a second classifier is constructed
NewClassifier ==
    /\ loaded' = Some(PlatformKeywordClassifier)
    /\ out' = [ op |-> "new", args |-> <<>>, raised |-> "", ret |-> None ]
    /\ UNCHANGED <<env, result, accepted, eventful, gen, keyword_classifier,
                   prev, files, callers>>

\* load(path) on the second classifier: nothing happens when the file does
\* not exist
Load ==
    /\ ~IsNone(loaded)
    /\ \E path \in Paths :
          /\ loaded' = IF path \in DOMAIN files
                       THEN Some(load(Val(loaded), files[path]))
                       ELSE loaded
          /\ out' = [ op |-> "load", args |-> [ path |-> path ],
                      raised |-> "", ret |-> None ]
    /\ UNCHANGED <<env, result, accepted, eventful, gen, keyword_classifier,
                   prev, files, callers>>

NextSaveLoad == LearnFromRules \/ Save \/ NewClassifier \/ Load

SpecSaveLoad == InitSaveLoad /\ [][NextSaveLoad]_vars

\* the second classifier has just loaded the file that holds what save
\* writes for the first one
RoundTripped ==
    /\ ~IsNone(loaded)
    /\ out.op = "load"
    /\ out.args.path \in DOMAIN files
    /\ files[out.args.path] = save(keyword_classifier)

\* C19: a classifier that loaded what another one saved has the same
\* platform_keywords and keyword_performance contents, and classify_dimension
\* returns the same dimension, confidence, method and matched keywords on
\* both for every probe description, scope and platform.
C19_SaveLoadRoundTrip ==
    RoundTripped =>
        /\ Val(loaded).platform_keywords = keyword_classifier.platform_keywords
        /\ Val(loaded).keyword_performance = keyword_classifier.keyword_performance
        /\ \A d \in ProbeDescriptions, sc \in ProbeScopes, p \in ProbePlatforms :
              classify_dimension(Val(loaded), d, sc, None, p)
                = classify_dimension(keyword_classifier, d, sc, None, p)

\* rewarded keywords and performance counts saved, then loaded
C19_Witness ==
    /\ RoundTripped
    /\ keyword_classifier.keyword_performance # EmptyDict
    /\ \E k \in DOMAIN keyword_classifier.platform_keywords :
          \E dk \in DOMAIN keyword_classifier.platform_keywords[k] :
             \E kw \in DOMAIN keyword_classifier.platform_keywords[k][dk] :
                keyword_classifier.platform_keywords[k][dk][kw] > 0
    /\ <<"u", "n", "k", "n", "o", "w", "n">> \in DOMAIN keyword_classifier.platform_keywords

----------------------------------------------------------------------------
(* learn_from_rules run by several callers on the shared classifier.  The  *)
(* callers interleave between statements; the locals of a caller are its   *)
(* own, platform_keywords is shared.  A subscript of a defaultdict inserts  *)
(* the default for a missing key.                                          *)

NumCallers == 2

CallerIds == 1..NumCallers

\* a caller that has not called yet
IdleCaller ==
    [ pc |-> "idle", rules |-> <<>>, i |-> 0, platform |-> <<>>,
      dimension |-> <<>>, todo |-> {}, word |-> <<>> ]

InitLearn ==
    /\ env = DesignEnvironment(10, 5, 2)
    /\ result = NoCall
    /\ accepted = FALSE
    /\ eventful = 0
    /\ gen = NoGenerator
    /\ keyword_classifier \in TwiceClassifiers
    /\ out = NoCall
    /\ prev = NoCall
    /\ files = NoFiles
    /\ loaded = NoClassifier
    /\ callers = [ c \in CallerIds |-> IdleCaller ]

LearnFrame == UNCHANGED <<env, result, accepted, eventful, gen, out, prev,
                          files, loaded>>

\* the call: learn_from_rules(rules) is entered
LearnCall(c) ==
    /\ callers[c].pc = "idle"
    /\ \E rules \in LearnLists :
          callers' = [ callers EXCEPT ![c] =
                         [ IdleCaller EXCEPT !.pc = "for_rule", !.rules = rules,
                                             !.i = 1 ] ]
    /\ UNCHANGED keyword_classifier
    /\ LearnFrame

\* for rule in rules: the locals are computed; a rule without dimension or
\* description is skipped, the call returns after the last rule
LearnForRule(c) ==
    LET self == callers[c]
    IN  /\ self.pc = "for_rule"
        /\ callers' = [ callers EXCEPT ![c] =
              IF self.i > Len(self.rules) THEN [ self EXCEPT !.pc = "done" ]
              ELSE IF LearnSkips(self.rules[self.i])
              THEN [ self EXCEPT !.i = self.i + 1 ]
              ELSE [ self EXCEPT
                       !.pc = "if_platform",
                       !.platform = LearnPlatform(self.rules[self.i]),
                       !.dimension = Val(self.rules[self.i].design_dimension),
                       !.todo = SignificantWords(self.rules[self.i].description) ] ]
        /\ UNCHANGED keyword_classifier
        /\ LearnFrame

\* if platform not in self.platform_keywords:
LearnIfPlatform(c) ==
    LET self == callers[c]
    IN  /\ self.pc = "if_platform"
        /\ callers' = [ callers EXCEPT ![c].pc =
              IF self.platform \notin DOMAIN keyword_classifier.platform_keywords
              THEN "init_platform" ELSE "for_word" ]
        /\ UNCHANGED keyword_classifier
        /\ LearnFrame

\* self.platform_keywords[platform] = defaultdict(dict)
LearnInitPlatform(c) ==
    LET self == callers[c]
    IN  /\ self.pc = "init_platform"
        /\ keyword_classifier' =
              [ keyword_classifier EXCEPT !.platform_keywords =
                  DictSet(keyword_classifier.platform_keywords, self.platform,
                          EmptyDict) ]
        /\ callers' = [ callers EXCEPT ![c].pc = "for_word" ]
        /\ LearnFrame

\* for word in words: the next word of the set, in any order
LearnForWord(c) ==
    LET self == callers[c]
    IN  /\ self.pc = "for_word"
        /\ IF self.todo = {}
           THEN callers' = [ callers EXCEPT ![c].pc = "for_rule",
                                            ![c].i = self.i + 1 ]
           ELSE \E w \in self.todo :
                   callers' = [ callers EXCEPT ![c].pc = "if_word",
                                               ![c].word = w,
                                               ![c].todo = self.todo \ {w} ]
        /\ UNCHANGED keyword_classifier
        /\ LearnFrame

\* if word not in self.platform_keywords[platform][dimension]:
LearnIfWord(c) ==
    LET self == callers[c]
        pk == Subscript2(keyword_classifier.platform_keywords, self.platform,
                         self.dimension)
    IN  /\ self.pc = "if_word"
        /\ keyword_classifier' = [ keyword_classifier EXCEPT !.platform_keywords = pk ]
        /\ callers' = [ callers EXCEPT ![c].pc =
              IF self.word \notin DOMAIN pk[self.platform][self.dimension]
              THEN "set_word" ELSE "for_word" ]
        /\ LearnFrame

\* self.platform_keywords[platform][dimension][word] = 0.0
LearnSetWord(c) ==
    LET self == callers[c]
        pk == Subscript2(keyword_classifier.platform_keywords, self.platform,
                         self.dimension)
    IN  /\ self.pc = "set_word"
        /\ keyword_classifier' =
              [ keyword_classifier EXCEPT !.platform_keywords =
                  DictSet(pk, self.platform,
                          DictSet(pk[self.platform], self.dimension,
                                  DictSet(pk[self.platform][self.dimension],
                                          self.word, 0))) ]
        /\ callers' = [ callers EXCEPT ![c].pc = "for_word" ]
        /\ LearnFrame

NextLearn ==
    \E c \in CallerIds :
        \/ LearnCall(c)
        \/ LearnForRule(c)
        \/ LearnIfPlatform(c)
        \/ LearnInitPlatform(c)
        \/ LearnForWord(c)
        \/ LearnIfWord(c)
        \/ LearnSetWord(c)

SpecLearn == InitLearn /\ [][NextLearn]_vars

\* the keyword is in the table of (platform, dimension)
Seeded(platform_keywords, platform, dimension, word) ==
    /\ platform \in DOMAIN platform_keywords
    /\ dimension \in DOMAIN platform_keywords[platform]
    /\ word \in DOMAIN platform_keywords[platform][dimension]

\* C20: when the learn_from_rules calls of two callers on the shared
\* classifier, interleaved between statements, have both returned, every
\* keyword either call seeded for a (platform, dimension) is in
\* platform_keywords.
C20_NoSeededKeywordLost ==
    (\A c \in CallerIds : callers[c].pc = "done") =>
        \A c \in CallerIds : \A n \in 1..Len(callers[c].rules) :
            LET rule == callers[c].rules[n]
            IN  ~LearnSkips(rule) =>
                  \A w \in SignificantWords(rule.description) :
                      Seeded(keyword_classifier.platform_keywords,
                             LearnPlatform(rule), Val(rule.design_dimension), w)

----------------------------------------------------------------------------
(* The operations of the classifier on its tables                          *)

\* d.pop(k, None)
DictPop(d, k) == [ x \in (DOMAIN d) \ {k} |-> d[x] ]

\* the (platform, dimension, keyword) entries of keyword_performance
Tracked(keyword_performance) ==
    UNION { UNION { { <<p, d, k>> : k \in DOMAIN keyword_performance[p][d] } :
                    d \in DOMAIN keyword_performance[p] } :
            p \in DOMAIN keyword_performance }

\* perf['total'] > 0 and correct / total >= min_accuracy (thousandths)
MeetsFloor(perf, min_accuracy) ==
    perf.total > 0 /\ 1000 * perf.correct >= min_accuracy * perf.total

\* accuracy = perf['correct'] / perf['total'], thousandths
Accuracy(perf) == (1000 * perf.correct) \div perf.total

UpdateEntry_keeps_low(platform_keywords, perf, min_accuracy, platform, dimension, keyword) ==
    IF perf.total > 0
    THEN IF Accuracy(perf) >= min_accuracy
         THEN LET pk == Subscript2(Subscript1(platform_keywords, platform),
                                   platform, dimension)
              IN  DictSet(pk, platform,
                          DictSet(pk[platform], dimension,
                                  DictSet(pk[platform][dimension], keyword,
                                          Accuracy(perf))))
         ELSE platform_keywords
    ELSE platform_keywords

\* the body of the innermost loop of update_rewards for one entry
UpdateEntry(platform_keywords, perf, min_accuracy, platform, dimension, keyword) ==
    IF perf.total > 0
    THEN IF Accuracy(perf) >= min_accuracy
         THEN LET pk == Subscript2(Subscript1(platform_keywords, platform),
                                   platform, dimension)
              IN  DictSet(pk, platform,
                          DictSet(pk[platform], dimension,
                                  DictSet(pk[platform][dimension], keyword,
                                          Accuracy(perf))))
         ELSE IF /\ platform \in DOMAIN platform_keywords
                 /\ dimension \in DOMAIN platform_keywords[platform]
              THEN DictSet(platform_keywords, platform,
                           DictSet(platform_keywords[platform], dimension,
                                   DictPop(platform_keywords[platform][dimension],
                                           keyword)))
              ELSE platform_keywords
    ELSE platform_keywords

\* the loops of update_rewards over the entries still to visit; every entry
\* writes its own keyword only, so the order of the visits is immaterial
RECURSIVE UpdateEntries(_, _, _, _)
UpdateEntries(platform_keywords, keyword_performance, min_accuracy, todo) ==
    IF todo = {} THEN platform_keywords
    ELSE LET e == CHOOSE x \in todo : TRUE
         IN  UpdateEntries(
                 UpdateEntry(platform_keywords,
                             keyword_performance[e[1]][e[2]][e[3]],
                             min_accuracy, e[1], e[2], e[3]),
                 keyword_performance, min_accuracy, todo \ {e})

update_rewards(self, min_accuracy) ==
    [ self EXCEPT !.platform_keywords =
        UpdateEntries(self.platform_keywords, self.keyword_performance,
                      min_accuracy, Tracked(self.keyword_performance)) ]

\* the classifier object after get_platform_keywords: the platform is
\* subscripted only when it is in the table, the dimension is read with get
get_platform_keywords_tables(self, platform, dimension) ==
    IF platform \notin DOMAIN self.platform_keywords THEN self
    ELSE [ self EXCEPT !.platform_keywords =
             Subscript1(self.platform_keywords, platform) ]

\* what get_platform_keywords returns
get_platform_keywords(self, platform, dimension) ==
    IF platform \notin DOMAIN self.platform_keywords THEN EmptyDict
    ELSE IF NonEmpty(dimension)
    THEN DictSet(EmptyDict, Val(dimension),
                 DictGet(self.platform_keywords[platform], Val(dimension), EmptyDict))
    ELSE self.platform_keywords[platform]

Perf(correct, total) == [ correct |-> correct, total |-> total ]

\* a classifier as load leaves it: seeded keywords, and counts of keywords
\* above, at and below the default floor, of a keyword that was never
\* counted, and of keywords, a dimension and a platform the keyword table
\* does not hold
TrackedClassifier ==
    [ platform_keywords |-> LearnedClassifier.platform_keywords,
      keyword_performance |->
        DictSet(DictSet(EmptyDict, <<"f", "i", "g", "m", "a">>,
            DictSet(DictSet(EmptyDict, <<"s", "p", "a", "c", "i", "n", "g">>,
                DictSet(DictSet(DictSet(EmptyDict,
                    <<"a", "d", "j", "u", "s", "t">>, Perf(1, 4)),
                    <<"s", "p", "a", "c", "i", "n", "g">>, Perf(0, 0)),
                    <<"p", "a", "d", "d", "i", "n", "g">>, Perf(4, 4))),
                <<"l", "a", "y", "o", "u", "t">>,
                DictSet(EmptyDict, <<"g", "r", "i", "d">>, Perf(1, 2)))),
            <<"c", "a", "n", "v", "a">>,
            DictSet(DictSet(EmptyDict, <<"l", "a", "y", "o", "u", "t">>,
                DictSet(EmptyDict, <<"g", "r", "i", "d">>, Perf(3, 5))),
                <<"c", "o", "l", "o", "r">>,
                DictSet(EmptyDict, <<"h", "u", "e">>, Perf(1, 2)))) ]

TableClassifiers ==
    { PlatformKeywordClassifier, LearnedClassifier, RewardedClassifier,
      TrackedClassifier }

\* min_accuracy, thousandths; 600 is the default
Floors == { 0, 500, 600, 1000 }

TableDescriptions == { Rule["rC"].description, Rule["rB"].description }

TableScopes == { "", "structural" }

TableDimensions == { None, Some(<<"s", "p", "a", "c", "i", "n", "g">>), Some(<<"b", "r", "a", "n", "d">>) }

InitTables ==
    /\ env = DesignEnvironment(10, 5, 2)
    /\ result = NoCall
    /\ accepted = FALSE
    /\ eventful = 0
    /\ gen = NoGenerator
    /\ keyword_classifier \in TableClassifiers
    /\ out = NoCall
    /\ prev = NoCall
    /\ files = NoFiles
    /\ loaded = NoClassifier
    /\ callers = NoCallers

\* classify_dimension on the shared classifier; the result depends on the
\* arguments and the tables only, so the calls are taken from the states
\* another operation has left
ClassifyShared ==
    /\ out.op # "classify_dimension"
    /\ \E d \in TableDescriptions, sc \in TableScopes, e \in ProbeExplicit,
          p \in ProbePlatforms :
          /\ out' = [ op     |-> "classify_dimension",
                      args   |-> [ description |-> d, scope |-> sc,
                                   explicit_dimension |-> e, platform |-> p ],
                      raised |-> "",
                      ret    |-> classify_dimension(keyword_classifier, d, sc, e, p) ]
          /\ keyword_classifier' =
                 classify_dimension_tables(keyword_classifier, d, sc, e, p)
    /\ UNCHANGED <<env, result, accepted, eventful, gen, prev>>
    /\ UNCHANGED clsvars

GetPlatformKeywords ==
    /\ \E p \in { <<"f", "i", "g", "m", "a">>, <<"c", "a", "n", "v", "a">> },
          d \in TableDimensions :
          /\ out' = [ op     |-> "get_platform_keywords",
                      args   |-> [ platform |-> p, dimension |-> d ],
                      raised |-> "",
                      ret    |-> get_platform_keywords(keyword_classifier, p, d) ]
          /\ keyword_classifier' = get_platform_keywords_tables(keyword_classifier, p, d)
    /\ UNCHANGED <<env, result, accepted, eventful, gen, prev>>
    /\ UNCHANGED clsvars

\* update_rewards(min_accuracy); prev keeps the classifier of before the call
UpdateRewards ==
    /\ \E min_accuracy \in Floors :
          /\ keyword_classifier' = update_rewards(keyword_classifier, min_accuracy)
          /\ out' = [ op |-> "update_rewards",
                      args |-> [ min_accuracy |-> min_accuracy ],
                      raised |-> "", ret |-> None ]
    /\ UNCHANGED <<env, result, accepted, eventful, gen, prev>>
    /\ UNCHANGED clsvars

NextTables == ClassifyShared \/ GetPlatformKeywords \/ LearnFromRules \/ UpdateRewards

SpecTables == InitTables /\ [][NextTables]_vars

----------------------------------------------------------------------------
(* format_for_dpo.  A dict is a function from its keys.                     *)

\* _rule_to_dict: the nine fields copied, a None of the three optional
\* ones replaced by an empty list or dict
_rule_to_dict(rule) ==
    [ rule_id |-> rule.rule_id,
      description |-> rule.description,
      scope |-> rule.scope,
      abstraction_level |-> rule.abstraction_level,
      triggering_actions |-> rule.triggering_actions,
      artifact_properties |-> IF NonEmpty(rule.artifact_properties)
                              THEN Val(rule.artifact_properties) ELSE <<>>,
      confidence |-> rule.confidence,
      platform_context |-> IF NonEmpty(rule.platform_context)
                           THEN Val(rule.platform_context) ELSE EmptyDict,
      training_metadata |-> IF NonEmpty(rule.training_metadata)
                            THEN Val(rule.training_metadata) ELSE EmptyDict ]

\* the keys of the example of one pair
ExampleKeys(pair, include_weights, include_grouping) ==
    { "input", "preferred", "rejected", "source", "type", "synthetic" }
    \cup (IF include_weights /\ pair.synthetic THEN { "weight" } ELSE {})
    \cup (IF include_grouping /\ NonEmpty(pair.dimension_group)
          THEN { "dimension_group" } ELSE {})
    \cup (IF include_grouping /\ NonEmpty(pair.platform_group)
          THEN { "platform_group" } ELSE {})
    \cup (IF include_grouping /\ NonEmpty(pair.artifact_group)
          THEN { "artifact_group" } ELSE {})

\* the example dict built in the loop of format_for_dpo
Example(pair, include_weights, include_grouping) ==
    [ k \in ExampleKeys(pair, include_weights, include_grouping) |->
        CASE k = "input" -> IF NonEmpty(pair.trace_context)
                            THEN Val(pair.trace_context) ELSE EmptyDict
          [] k = "preferred" -> _rule_to_dict(Rule[pair.preferred])
          [] k = "rejected" -> _rule_to_dict(Rule[pair.rejected])
          [] k = "source" -> IF pair.synthetic THEN "synthetic" ELSE "production"
          [] k = "type" -> "batch_import"
          [] k = "synthetic" -> pair.synthetic
          [] k = "weight" -> pair.weight
          [] k = "dimension_group" -> Val(pair.dimension_group)
          [] k = "platform_group" -> Val(pair.platform_group)
          [] k = "artifact_group" -> Val(pair.artifact_group) ]

format_for_dpo(self, pairs, include_weights, include_grouping) ==
    [ n \in 1..Len(pairs) |-> Example(pairs[n], include_weights, include_grouping) ]

\* the pairs generate_preferences returns for the heap's rules, one
\* strategy at a time, with the default grouping and with none
ExportPairs ==
    UNION { Elems(generate_preferences(
                     SyntheticPreferenceGenerator(70, 40, 30, 30, d, d, d),
                     PlatformKeywordClassifier, <<"rA", "rB", "rC", "rD">>, c,
                     Some({s}))) :
            d \in BOOLEAN, c \in TraceContexts, s \in DefaultStrategies }

\* pairs in one format_for_dpo call
MaxExport == 2

ExportLists == SeqsUpTo(ExportPairs, MaxExport)

InitExport ==
    /\ env = DesignEnvironment(10, 5, 2)
    /\ result = NoCall
    /\ accepted = FALSE
    /\ eventful = 0
    /\ gen = SyntheticPreferenceGenerator(70, 40, 30, 30, TRUE, TRUE, TRUE)
    /\ keyword_classifier = PlatformKeywordClassifier
    /\ out = NoCall
    /\ prev = NoCall
    /\ files = NoFiles
    /\ loaded = NoClassifier
    /\ callers = NoCallers

\* format_for_dpo assigns nothing: one call per argument list
FormatForDpo ==
    /\ out.op # "format_for_dpo"
    /\ \E pairs \in ExportLists, include_weights \in BOOLEAN,
          include_grouping \in BOOLEAN :
          out' = [ op     |-> "format_for_dpo",
                   args   |-> [ pairs |-> pairs, include_weights |-> include_weights,
                                include_grouping |-> include_grouping ],
                   raised |-> "",
                   ret    |-> format_for_dpo(gen, pairs, include_weights,
                                             include_grouping) ]
    /\ UNCHANGED <<env, result, accepted, eventful, gen, keyword_classifier, prev>>
    /\ UNCHANGED clsvars

NextExport == FormatForDpo

SpecExport == InitExport /\ [][NextExport]_vars

\* the fields of a PreferencePair as values: the rules in place of their
\* references
PairFields(pair) ==
    [ pair EXCEPT !.preferred = Rule[pair.preferred],
                  !.rejected = Rule[pair.rejected] ]

\* C22: from each record format_for_dpo returns (weights and grouping
\* included) the pair can be recovered with all its fields: no other pair
\* (other rules, source strategy tag, synthetic flag, weight, trace context
\* or group labels) has the same record.
C22_ExportLossless ==
    (/\ out.op = "format_for_dpo"
     /\ out.args.include_weights
     /\ out.args.include_grouping) =>
        \A n \in 1..Len(out.ret) : \A q \in ExportPairs :
            Example(q, TRUE, TRUE) = out.ret[n]
                => PairFields(q) = PairFields(out.args.pairs[n])

----------------------------------------------------------------------------
(* load_rules_from_generated_file.  A line of the file is given by what     *)
(* line.strip() and json.loads make of it: blank, not JSON, or the object   *)
(* parsed.                                                                  *)

BlankLine == [ kind |-> "blank" ]
MalformedLine == [ kind |-> "malformed" ]
ObjectLine(data) == [ kind |-> "object", data |-> data ]

\* data.get('trace_id') or data.get('metadata', {}).get('batch_id', 'unknown')
BatchTraceId(data) ==
    IF "trace_id" \in DOMAIN data /\ data.trace_id # ""
    THEN data.trace_id
    ELSE DictGet(DictGet(data, "metadata", EmptyDict), "batch_id", "unknown")

\* rule_data.get(key): None when the key is missing
RuleDataGet(rule_data, key) ==
    IF key \in DOMAIN rule_data THEN Some(rule_data[key]) ELSE None

\* the IntentRule built from one rule_data: design_dimension is not read
LoadedRule(rule_data) ==
    [ rule_id |-> rule_data.rule_id,
      description |-> rule_data.description,
      scope |-> rule_data.scope,
      abstraction_level |-> rule_data.abstraction_level,
      triggering_actions |-> rule_data.triggering_actions,
      artifact_properties |-> RuleDataGet(rule_data, "artifact_properties"),
      confidence |-> rule_data.confidence,
      platform_context |-> RuleDataGet(rule_data, "platform_context"),
      training_metadata |-> RuleDataGet(rule_data, "training_metadata"),
      design_dimension |-> None ]

\* the rules of one parsed batch
BatchRules(data) ==
    LET rules_data == DictGet(data, "intent_rules", <<>>)
    IN  [ i \in 1..Len(rules_data) |-> LoadedRule(rules_data[i]) ]

\* the loop over the lines from the n-th on: json.loads raises on a line
\* that is not JSON and nothing catches it
RECURSIVE LoadLines(_, _, _)
LoadLines(trace_rules, lines, n) ==
    IF n > Len(lines) THEN [ raised |-> "", ret |-> Some(trace_rules) ]
    ELSE IF lines[n].kind = "blank" THEN LoadLines(trace_rules, lines, n + 1)
    ELSE IF lines[n].kind = "malformed"
    THEN [ raised |-> "JSONDecodeError", ret |-> None ]
    ELSE LoadLines(DictSet(trace_rules, BatchTraceId(lines[n].data),
                           BatchRules(lines[n].data)),
                   lines, n + 1)

load_rules_from_generated_file(lines) == LoadLines(EmptyDict, lines, 1)

\* rule_data as the generator writes it: the fields of a rule of the heap,
\* the optional ones left out when None
RuleData(r) ==
    [ k \in { "rule_id", "description", "scope", "abstraction_level",
              "triggering_actions", "confidence" }
            \cup { f \in { "artifact_properties", "platform_context",
                           "training_metadata" } : ~IsNone(Rule[r][f]) } |->
        IF k \in { "artifact_properties", "platform_context", "training_metadata" }
        THEN Val(Rule[r][k]) ELSE Rule[r][k] ]

FileLines ==
    { BlankLine, MalformedLine,
      ObjectLine([ trace_id |-> "trace_1", intent_rules |-> << RuleData("rA") >> ]),
      ObjectLine([ trace_id |-> "trace_2",
                   intent_rules |-> << RuleData("rB"), RuleData("rC") >> ]),
      ObjectLine([ metadata |-> [ batch_id |-> "batch_7" ],
                   intent_rules |-> << RuleData("rD") >> ]),
      ObjectLine([ trace_id |-> "trace_1", intent_rules |-> <<>> ]) }

\* lines in a file
MaxLines == 3

RuleFiles == SeqsUpTo(FileLines, MaxLines)

InitLoadRules ==
    /\ env = DesignEnvironment(10, 5, 2)
    /\ result = NoCall
    /\ accepted = FALSE
    /\ eventful = 0
    /\ gen = NoGenerator
    /\ keyword_classifier = PlatformKeywordClassifier
    /\ out = NoCall
    /\ prev = NoCall
    /\ files = NoFiles
    /\ loaded = NoClassifier
    /\ callers = NoCallers

\* the function reads the file and assigns no global: one call per file
LoadRulesFromGeneratedFile ==
    /\ out.op # "load_rules_from_generated_file"
    /\ \E lines \in RuleFiles :
          LET r == load_rules_from_generated_file(lines)
          IN  out' = [ op     |-> "load_rules_from_generated_file",
                       args   |-> [ lines |-> lines ],
                       raised |-> r.raised,
                       ret    |-> r.ret ]
    /\ UNCHANGED <<env, result, accepted, eventful, gen, keyword_classifier, prev>>
    /\ UNCHANGED clsvars

NextLoadRules == LoadRulesFromGeneratedFile

SpecLoadRules == InitLoadRules /\ [][NextLoadRules]_vars

\* C23: load_rules_from_generated_file does not abort on a file with a
\* line that is not JSON: it returns, and the batch of every well-formed
\* line, before and after the bad one, is in the result.
C23_SkipAndContinue ==
    out.op = "load_rules_from_generated_file" =>
        /\ out.raised = ""
        /\ \A n \in 1..Len(out.args.lines) :
              out.args.lines[n].kind = "object" =>
                  BatchTraceId(out.args.lines[n].data) \in DOMAIN Val(out.ret)

----------------------------------------------------------------------------
(* The episode counters *)

\* C24: the reward history holds one entry per step since the last reset,
\* in order: reset empties it and sets the counter to 0, a successful step
\* adds 1 to the counter and appends its reward value, nothing else touches
\* them; the info map of a step reports that counter and the sum of that
\* history.
C24_InfoTracksEpisode ==
    /\ [](Len(env.episode_rewards) = env.episode_step)
    /\ []((result.op = "step" /\ result.raised = "") =>
             /\ result.ret.info.episode_step = env.episode_step
             /\ result.ret.info.total_reward = SumSeq(env.episode_rewards)
             /\ env.episode_rewards[env.episode_step] = result.ret.reward.value)
    /\ [][ /\ result'.op = "reset" =>
                /\ env'.episode_step = 0
                /\ env'.episode_rewards = <<>>
           /\ (result'.op = "step" /\ result'.raised = "" /\ result' # result) =>
                /\ env'.episode_step = env.episode_step + 1
                /\ env'.episode_rewards
                      = Append(env.episode_rewards, result'.ret.reward.value)
           /\ (result'.op \notin { "reset", "step" } \/ result'.raised # "") =>
                /\ env'.episode_step = env.episode_step
                /\ env'.episode_rewards = env.episode_rewards ]_vars

\* the third step of an episode that began with a rejected suggestion
C24_Witness ==
    /\ result.op = "step"
    /\ result.raised = ""
    /\ result.ret.info.episode_step = 3
    /\ env.episode_rewards[1] < 0
    /\ result.ret.info.total_reward < 0
    /\ result.ret.info.total_reward
          = env.episode_rewards[1] + env.episode_rewards[2] + env.episode_rewards[3]

----------------------------------------------------------------------------
(* The group labels of a pair *)

\* C25: for every combination of the three grouping switches, the
\* dimension_group, platform_group and artifact_group of each returned pair
\* are the classified dimension, platform and artifact type of the pair's
\* rules when that grouping is enabled, and absent when it is disabled.
C25_GroupLabelsMatchSwitches ==
    out.op = "generate_preferences" =>
        \A k \in 1..Len(out.ret) :
            LET p == out.ret[k]
            IN  /\ p.dimension_group =
                      IF gen.group_by_dimension
                      THEN Some(_classify_design_dimension(keyword_classifier,
                                                           p.preferred))
                      ELSE None
                /\ p.platform_group =
                      IF gen.group_by_platform THEN Some(PlatformOf[p.preferred])
                      ELSE None
                /\ p.artifact_group =
                      IF gen.group_by_artifact THEN Some(ArtifactTypeOf[p.preferred])
                      ELSE None

----------------------------------------------------------------------------
(* The quality score on its own *)

\* a description of more than 20 words
LongDescription == Flatten(Repeat(<<"a", " ">>, 21))

QualityPlatformContexts ==
    { None,
      Some([ platform |-> <<"f", "i", "g", "m", "a">> ]),
      Some([ platform |-> <<"f", "i", "g", "m", "a">>, extraction_method |-> <<"a", "p", "i">> ]),
      Some([ api_endpoints |-> << <<"/", "v", "1">> >> ]),
      Some([ platform |-> <<"f", "i", "g", "m", "a">>, api_endpoints |-> << <<"/", "v", "1">> >> ]),
      Some([ platform |-> <<"f", "i", "g", "m", "a">>, extraction_method |-> <<"a", "p", "i">>,
             api_endpoints |-> << <<"/", "v", "1">> >> ]) }

QualityMetadata ==
    { None,
      Some([ suitable_for_training |-> TRUE, novelty_score |-> 80 ]),
      Some([ suitable_for_training |-> FALSE, novelty_score |-> 20 ]),
      Some([ suitable_for_training |-> TRUE ]),
      Some([ novelty_score |-> 80 ]) }

\* rules that earn every combination of the six credits
QualityRules ==
    { [ rule_id |-> id, description |-> d, scope |-> "structural",
        abstraction_level |-> "general", triggering_actions |-> <<>>,
        artifact_properties |-> None, confidence |-> 50,
        platform_context |-> pc, training_metadata |-> tm,
        design_dimension |-> None ] :
      id \in { "", "rule_q" },
      d \in { <<"A", "d", "j", "u", "s", "t", " ", "g", "r", "i", "d">>, LongDescription },
      pc \in QualityPlatformContexts, tm \in QualityMetadata }

\* min_novelty_score, hundredths; 30 is the default
QualityGenerators ==
    { SyntheticPreferenceGenerator(70, 40, n, 30, TRUE, TRUE, TRUE) : n \in { 0, 30, 90 } }

InitQuality ==
    /\ env = DesignEnvironment(10, 5, 2)
    /\ result = NoCall
    /\ accepted = FALSE
    /\ eventful = 0
    /\ gen \in QualityGenerators
    /\ keyword_classifier = PlatformKeywordClassifier
    /\ out = NoCall
    /\ prev = NoCall
    /\ files = NoFiles
    /\ loaded = NoClassifier
    /\ callers = NoCallers

\* _compute_quality_score on one rule, and the list the quality strategy
\* puts the rule in; the method assigns nothing: one call per rule
ComputeQualityScore ==
    /\ out.op # "_compute_quality_score"
    /\ \E rule \in QualityRules :
          out' = [ op     |-> "_compute_quality_score",
                   args   |-> [ rule |-> rule ],
                   raised |-> "",
                   ret    |-> [ score |-> _compute_quality_score(gen, rule),
                                preferred |-> IsQualityRule(gen, rule),
                                rejected |-> IsPoorQualityRule(gen, rule) ] ]
    /\ UNCHANGED <<env, result, accepted, eventful, gen, keyword_classifier, prev>>
    /\ UNCHANGED clsvars

NextQuality == ComputeQualityScore

SpecQuality == InitQuality /\ [][NextQuality]_vars

\* the sum of the credits a rule earns, hundredths; a missing novelty_score
\* counts as 0
Credits(self, rule) ==
    LET pc == rule.platform_context
        tm == rule.training_metadata
    IN  (IF rule.rule_id # "" /\ rule.description # <<>> /\ rule.scope # ""
         THEN 20 ELSE 0)
        + (IF Len(rule.description) <= 150 /\ WordCount(rule.description) <= 20
           THEN 20 ELSE 0)
        + (IF NonEmpty(pc) /\ HasTruthy(Val(pc), "platform")
                /\ HasTruthy(Val(pc), "extraction_method") THEN 20 ELSE 0)
        + (IF NonEmpty(pc) /\ HasTruthy(Val(pc), "api_endpoints") THEN 10 ELSE 0)
        + (IF NonEmpty(tm) /\ DictGet(Val(tm), "suitable_for_training", FALSE)
           THEN 20 ELSE 0)
        + (IF NonEmpty(tm) /\ DictGet(Val(tm), "novelty_score", 0)
                                  >= self.min_novelty_score
           THEN 10 ELSE 0)

\* C26: the quality score of a rule is the sum of the credits it earns
\* (0.2 + 0.2 + 0.2 + 0.1 + 0.2 + 0.1; as a float, that sum or a double
\* next to it), and the quality strategy puts the rule in the preferred
\* list when the sum is at least 0.8 and in the rejected list when it is
\* at most 0.5.
C26_QualityScoreAndLists ==
    out.op = "_compute_quality_score" =>
        LET credits == Credits(gen, out.args.rule)
        IN  /\ out.ret.score[1] = credits
            /\ out.ret.preferred = (credits >= 80)
            /\ out.ret.rejected = (credits <= 50)

(***************************************************************************)
(* DatasetExporter.create_preference_pairs_from_events                     *)
(***************************************************************************)

\* input_context of one event: the events here carry no artifact_id and no
\* trace_context, so the .get defaults apply
InputContext(pref, snapshot) ==
    [ snapshot_id    |-> pref.snapshot_id,
      artifact_id    |-> None,
      user_intent    |-> None,
      component_id   |-> None,
      platform       |-> "figma",
      component_type |-> DictGet(DictGet(snapshot, "metadata", EmptyDict),
                                 "artifact_type", None) ]

\* next((r for r in suggested_rules if r.get('rule_id') == rule_id), None)
FindRule(suggested_rules, rule_id) ==
    LET hits == SelectSeq(suggested_rules, LAMBDA r : r.rule_id = rule_id)
    IN  IF hits = <<>> THEN None ELSE Some(hits[1])

\* one appended pair; the events carry no 'source', 'type' or 'timestamp'
EventPair(pref, input_context, preferred, rejected, labelled) ==
    [ input     |-> input_context,
      preferred |-> preferred,
      rejected  |-> rejected,
      source    |-> "user_feedback",
      type      |-> "auto_suggestion",
      weight    |-> 1000,
      metadata  |-> [ event_id        |-> pref.event_id,
                      timestamp       |-> None,
                      dimension_group |-> labelled.dimension,
                      platform_group  |-> input_context.platform ] ]

\* the rules of the event other than the named one, in their order
OtherRules(suggested_rules, rule_id) ==
    SelectSeq(suggested_rules, LAMBDA r : r.rule_id # rule_id)

AcceptedPairs(pref, input_context) ==
    LET rule_id == pref.user_action.rule_id
        accepted_rule == IF ~IsNone(rule_id)
                         THEN FindRule(pref.suggested_rules, Val(rule_id))
                         ELSE None
        others == OtherRules(pref.suggested_rules, Val(rule_id))
    IN  IF IsNone(accepted_rule) THEN <<>>
        ELSE [ n \in 1..Len(others) |->
                 EventPair(pref, input_context, Val(accepted_rule), others[n],
                           Val(accepted_rule)) ]

DismissedPairs(pref, input_context) ==
    LET rule_id == pref.user_action.rule_id
        dismissed_rule == IF ~IsNone(rule_id)
                          THEN FindRule(pref.suggested_rules, Val(rule_id))
                          ELSE None
        others == OtherRules(pref.suggested_rules, Val(rule_id))
    IN  IF IsNone(dismissed_rule) THEN <<>>
        ELSE [ n \in 1..Len(others) |->
                 EventPair(pref, input_context, others[n], Val(dismissed_rule),
                           others[n]) ]

\* the branch the loop body takes on the action type
RejectionBranch == "dismissed"

\* the body of the loop over the events
PairsOfEvent(pref, snapshots) ==
    LET action_type == pref.user_action.type
        snapshot == DictGet(snapshots, pref.snapshot_id, EmptyDict)
        input_context == InputContext(pref, snapshot)
    IN  IF action_type = "ignored" \/ Len(pref.suggested_rules) < 2 THEN <<>>
        ELSE IF snapshot = EmptyDict THEN <<>>
        ELSE IF action_type = "accepted" THEN AcceptedPairs(pref, input_context)
        ELSE IF action_type = RejectionBranch
             THEN DismissedPairs(pref, input_context)
        ELSE <<>>

create_preference_pairs_from_events(preferences, snapshots) ==
    Flatten([ n \in 1..Len(preferences) |->
                PairsOfEvent(preferences[n], snapshots) ])

SuggestedRule(id, dimension) == [ rule_id |-> id, dimension |-> Some(dimension) ]

SuggestedLists ==
    { <<>>,
      << SuggestedRule("r1", "spacing") >>,
      << SuggestedRule("r1", "spacing"), SuggestedRule("r2", "color") >>,
      << SuggestedRule("r1", "spacing"), SuggestedRule("r2", "color"),
         SuggestedRule("r3", "layout") >>,
      << SuggestedRule("r2", "color"), SuggestedRule("r1", "spacing"),
         SuggestedRule("r2", "layout") >> }

\* the action types of the interaction record, and the one the loop names
ActionTypes == { "accepted", "rejected", "modified", "ignored", "dismissed" }

\* the events a log can hold as its n-th record
Events(n) ==
    { [ event_id        |-> n,
        snapshot_id     |-> s,
        user_action     |-> [ type |-> t, rule_id |-> id ],
        suggested_rules |-> rules ] :
      s \in { "s1", "s2" }, t \in ActionTypes,
      id \in { None, Some("r1"), Some("r3") }, rules \in SuggestedLists }

\* the snapshot store: "s1" is loaded, "s2" is not
EventSnapshots == [ s \in { "s1" } |-> [ metadata |-> [ artifact_type |-> Some("component") ] ] ]

MaxEvents == 2

\* the logs of n events
RECURSIVE LogsOf(_)
LogsOf(n) ==
    IF n = 0 THEN { <<>> }
    ELSE { Append(log, e) : log \in LogsOf(n - 1), e \in Events(n) }

\* the logs of at most max events
EventLogs(max) == UNION { LogsOf(n) : n \in 0..max }

InitEvents ==
    /\ env = DesignEnvironment(10, 5, 2)
    /\ result = NoCall
    /\ accepted = FALSE
    /\ eventful = 0
    /\ gen = SyntheticPreferenceGenerator(70, 40, 30, 30, TRUE, TRUE, TRUE)
    /\ keyword_classifier = PlatformKeywordClassifier
    /\ out = NoCall
    /\ prev = NoCall
    /\ files = NoFiles
    /\ loaded = NoClassifier
    /\ callers = NoCallers

\* one export of the pairs of a log; the method assigns nothing
CreatePreferencePairsFromEvents ==
    /\ out.op # "create_preference_pairs_from_events"
    /\ \E preferences \in EventLogs(MaxEvents) :
          out' = [ op     |-> "create_preference_pairs_from_events",
                   args   |-> [ preferences |-> preferences,
                                snapshots |-> EventSnapshots ],
                   raised |-> "",
                   ret    |-> create_preference_pairs_from_events(
                                  preferences, EventSnapshots) ]
    /\ UNCHANGED <<env, result, accepted, eventful, gen, keyword_classifier, prev>>
    /\ UNCHANGED clsvars

NextEvents == CreatePreferencePairsFromEvents

SpecEvents == InitEvents /\ [][NextEvents]_vars

\* the event names a rule among at least two suggested ones and its
\* snapshot is available
NamesRule(pref, snapshots) ==
    /\ ~IsNone(pref.user_action.rule_id)
    /\ \E n \in 1..Len(pref.suggested_rules) :
          pref.suggested_rules[n].rule_id = Val(pref.user_action.rule_id)
    /\ Len(pref.suggested_rules) >= 2
    /\ pref.snapshot_id \in DOMAIN snapshots

\* what a returned pair says: who is preferred over whom, at what weight
Verdict(pair) == << pair.preferred.rule_id, pair.rejected.rule_id, pair.weight >>

\* the verdicts of the pairs returned for one event
VerdictsOf(pairs, pref) ==
    LET mine == SelectSeq(pairs, LAMBDA p : p.metadata.event_id = pref.event_id)
    IN  [ n \in 1..Len(mine) |-> Verdict(mine[n]) ]

\* C27: for an event that rejects one named rule (action type 'rejected',
\* the rule among at least two suggested ones, snapshot available) the
\* exporter returns one pair per other suggested rule, the other rule
\* preferred over the rejected one at weight 1.0; for an accepted event it
\* returns one pair per other rule with the accepted rule preferred.
C27_PairsFromEvents ==
    out.op = "create_preference_pairs_from_events" =>
        \A n \in 1..Len(out.args.preferences) :
            LET pref == out.args.preferences[n]
                named == Val(pref.user_action.rule_id)
                others == OtherRules(pref.suggested_rules, named)
            IN  NamesRule(pref, out.args.snapshots) =>
                  /\ pref.user_action.type = "rejected" =>
                        VerdictsOf(out.ret, pref)
                          = [ k \in 1..Len(others) |->
                                << others[k].rule_id, named, 1000 >> ]
                  /\ pref.user_action.type = "accepted" =>
                        VerdictsOf(out.ret, pref)
                          = [ k \in 1..Len(others) |->
                                << named, others[k].rule_id, 1000 >> ]

\* platform_keywords holds a reward for the keyword
HasReward(platform_keywords, platform, dimension, keyword) ==
    /\ platform \in DOMAIN platform_keywords
    /\ dimension \in DOMAIN platform_keywords[platform]
    /\ keyword \in DOMAIN platform_keywords[platform][dimension]

\* the (platform, dimension, keyword) entries that hold a reward
Rewarded(platform_keywords) == Tracked(platform_keywords)

\* C28: update_rewards(min_accuracy) leaves the performance counters alone;
\* every tracked keyword with total > 0 and correct/total >= min_accuracy
\* then holds the reward correct/total exactly, every tracked keyword with
\* total > 0 and correct/total < min_accuracy holds no reward, and every
\* keyword with total = 0 or without a performance record holds what it
\* held before; a second call with the same floor changes nothing.
C28_UpdateRewards ==
    [][ out'.op = "update_rewards" =>
          LET floor == out'.args.min_accuracy
              before == keyword_classifier.platform_keywords
              after == keyword_classifier'.platform_keywords
              perfs == keyword_classifier.keyword_performance
              Judged(e) == /\ e \in Tracked(perfs)
                           /\ perfs[e[1]][e[2]][e[3]].total > 0
          IN  /\ keyword_classifier'.keyword_performance = perfs
              /\ \A e \in Tracked(perfs) :
                    LET perf == perfs[e[1]][e[2]][e[3]]
                    IN  /\ perf.total > 0 /\ 1000 * perf.correct >= floor * perf.total
                           => /\ HasReward(after, e[1], e[2], e[3])
                              /\ after[e[1]][e[2]][e[3]] * perf.total
                                   = 1000 * perf.correct
                        /\ perf.total > 0 /\ 1000 * perf.correct < floor * perf.total
                           => ~HasReward(after, e[1], e[2], e[3])
              /\ \A e \in Rewarded(before) \cup Rewarded(after) :
                    ~Judged(e) =>
                       /\ HasReward(before, e[1], e[2], e[3])
                       /\ HasReward(after, e[1], e[2], e[3])
                       /\ after[e[1]][e[2]][e[3]] = before[e[1]][e[2]][e[3]]
              /\ update_rewards(keyword_classifier', floor) = keyword_classifier'
              /\ (out.op = "update_rewards" /\ out.args.min_accuracy = floor)
                    => keyword_classifier' = keyword_classifier ]_vars

\* update_rewards(0.6) has run on the tracked classifier: "padding" (4/4) is
\* promoted to 1.0, "adjust" (1/4) is evicted, "spacing" (0/0) keeps its 0.0
\* and "grid" (3/5) enters under a platform the table did not have
C28_Witness ==
    LET figma == <<"f", "i", "g", "m", "a">>
        canva == <<"c", "a", "n", "v", "a">>
        spacing == <<"s", "p", "a", "c", "i", "n", "g">>
        layout == <<"l", "a", "y", "o", "u", "t">>
        table == keyword_classifier.platform_keywords
    IN  /\ out.op = "update_rewards"
        /\ out.args.min_accuracy = 600
        /\ keyword_classifier.keyword_performance
             = TrackedClassifier.keyword_performance
        /\ HasReward(table, figma, spacing, <<"p", "a", "d", "d", "i", "n", "g">>)
        /\ table[figma][spacing][<<"p", "a", "d", "d", "i", "n", "g">>] = 1000
        /\ ~HasReward(table, figma, spacing, <<"a", "d", "j", "u", "s", "t">>)
        /\ HasReward(table, figma, spacing, spacing)
        /\ table[figma][spacing][spacing] = 0
        /\ HasReward(table, canva, layout, <<"g", "r", "i", "d">>)
        /\ table[canva][layout][<<"g", "r", "i", "d">>] = 600

\* C29: the pairs one generate_preferences call returns never hold both
\* (a preferred over b) and (b preferred over a) for two rules a and b,
\* whichever strategies are enabled.
C29_NoContradiction ==
    out.op = "generate_preferences" =>
        \A i, j \in 1..Len(out.ret) :
            ~ /\ Rule[out.ret[i].preferred].rule_id = Rule[out.ret[j].rejected].rule_id
              /\ Rule[out.ret[i].rejected].rule_id = Rule[out.ret[j].preferred].rule_id

----------------------------------------------------------------------------
(* Seeding: learn_from_rules and classify_dimension on a classifier that    *)
(* was constructed and never loaded or rewarded                             *)

InitSeed ==
    /\ env = DesignEnvironment(10, 5, 2)
    /\ result = NoCall
    /\ accepted = FALSE
    /\ eventful = 0
    /\ gen = NoGenerator
    /\ keyword_classifier = PlatformKeywordClassifier
    /\ out = NoCall
    /\ prev = NoCall
    /\ files = NoFiles
    /\ loaded = NoClassifier
    /\ callers = NoCallers

NextSeed == LearnFromRules \/ ClassifyShared

SpecSeed == InitSeed /\ [][NextSeed]_vars

\* what the fresh classifier returns for the arguments of the last call
FreshResult ==
    classify_dimension(PlatformKeywordClassifier, out.args.description,
                       out.args.scope, out.args.explicit_dimension,
                       out.args.platform)

\* C30: after any sequence of learn_from_rules calls on a fresh classifier
\* every stored keyword reward is 0.0, a learn_from_rules call leaves every
\* reward already stored as it is, and classify_dimension returns the
\* dimension, confidence and method the fresh classifier returns for the
\* same description, scope and platform.
C30_SeedingKeepsClassification ==
    /\ [](\A e \in Rewarded(keyword_classifier.platform_keywords) :
             keyword_classifier.platform_keywords[e[1]][e[2]][e[3]] = 0)
    /\ [][ out'.op = "learn_from_rules" =>
             \A e \in Rewarded(keyword_classifier.platform_keywords) :
                 /\ HasReward(keyword_classifier'.platform_keywords,
                              e[1], e[2], e[3])
                 /\ keyword_classifier'.platform_keywords[e[1]][e[2]][e[3]]
                      = keyword_classifier.platform_keywords[e[1]][e[2]][e[3]] ]_vars
    /\ [](out.op = "classify_dimension" =>
             /\ out.ret.dimension = FreshResult.dimension
             /\ out.ret.confidence = FreshResult.confidence
             /\ out.ret.method = FreshResult.method)

\* a description that holds two keywords seeded for its platform is
\* classified: the seeded keywords are matched, and the result is still the
\* fresh classifier's
C30_Witness ==
    /\ out.op = "classify_dimension"
    /\ out.args.description = Rule["rC"].description
    /\ out.args.platform = Some(<<"f", "i", "g", "m", "a">>)
    /\ IsNone(out.args.explicit_dimension)
    /\ HasReward(keyword_classifier.platform_keywords, <<"f", "i", "g", "m", "a">>,
                 <<"s", "p", "a", "c", "i", "n", "g">>, <<"a", "d", "j", "u", "s", "t">>)
    /\ out.ret.method = "keywords"
    /\ out.ret.matched_keywords # FreshResult.matched_keywords

====
